---- MODULE Spec2Model ----
(***************************************************************************)
(* Verification model of the go-trader execution core:                     *)
(*   - the spot RiskManager (core/risk_manager.py) and the                 *)
(*     OptionsRiskManager (shared_strategies/options/risk.py);             *)
(*   - the paper ExchangeAdapter (archive/exchange_adapter.py);            *)
(*   - the DeribitOptionsAdapter paper book (platforms/deribit/adapter.py);*)
(*   - the LiveTrader and OptionsTrader tick loops.                        *)
(* Money is kept in integer units; every percentage test of the source is  *)
(* cross-multiplied so that no division is needed.                         *)
(***************************************************************************)
EXTENDS Integers, Sequences, FiniteSets, TLC

VARIABLES
    variant,      \* which risk manager class was constructed: "spot" or "options"
    now,          \* datetime.utcnow(), in minutes
    today,        \* datetime.utcnow().strftime("%Y-%m-%d"), as a day number
    rm,           \* the risk manager's fields
    ret,          \* the call that has just returned: operation, arguments, pre-state, result
    owed,         \* history: consecutive_losses >= max was seen and no cooldown has elapsed since
    loss_trip_until,  \* history: end of the cooldown started by the last consecutive-loss denial
    limit_trip_until, \* history: end of the cooldown owed to the last daily-loss or drawdown denial
    paper,        \* the paper ExchangeAdapter: balance, positions, orders, trades, Order._id_counter
    deribit,      \* the DeribitOptionsAdapter paper book: cash, positions, trades, _order_counter
    pc,           \* where the thread that is inside a mutating adapter method has got to
    committed,    \* history: the book as the last completed adapter method left it
    trader,       \* the trader around them: its strategy and the hedge spend of its risk manager
    runner,       \* the check_options runner and its driver: the positions fed back, the last output
    launch,       \* the last run of a program that can reach a real venue, and what it sent
    loop,         \* the control flow of a trader's start(): where it is, running, iteration
    fetch         \* the frame of fetch_full_history: where it is, its locals, what it gave back

\* the entry points beside the two traders
entryVars == <<runner, launch, loop, fetch>>

riskVars == <<variant, now, today, rm, owed, loss_trip_until, limit_trip_until>>

\* the second thread inside the options adapter
concVars == <<pc, committed>>

\* what the risk managers' operations leave alone
nonRiskVars == <<paper, deribit, concVars, trader, entryVars>>

\* what the paper adapter's operations leave alone
nonPaperVars == <<riskVars, deribit, concVars, trader, entryVars>>

\* what the options adapter's operations leave alone
nonAdapterVars == <<riskVars, paper, concVars, trader, entryVars>>

vars == <<riskVars, ret, nonRiskVars>>

-----------------------------------------------------------------------------
(* Bounds of the model *)

TimeStep == 30          \* minutes by which the clock advances in one step
MaxTicks == 4           \* the clock stops after MaxTicks steps
MaxDays == 2            \* last UTC day the clock can reach
MaxLosses == 6          \* cap on consecutive_losses
MaxDailyLoss == 6       \* cap on -daily_pnl
MaxDailyGain == 1       \* cap on daily_pnl
MaxOrders == 3          \* orders the paper adapter is asked to place
MaxHistory == 3         \* candles between since and now in fetch_full_history
PageLimit == 2          \* candles in one page of fetch_ohlcv
MaxRequests == 12       \* requests of one fetch_full_history call
MaxPositions == 3       \* option positions the adapter is asked to open
MaxBookPositions == 2   \* option positions opened in a book that is marked and settled
MaxRuns == 3            \* invocations of the check_options runner
MaxSchedTicks == 6      \* ticks a trading loop runs
MaxSchedOrders == 6     \* option positions a trading loop opens
MaxLoopIterations == 3  \* iterations after which the control flow of start() is cut off
NumSubjects == 2        \* underlyings or symbols a trader is given
MaxHedgeTicks == 3      \* ticks of the options loop on the venue with the wider quotes
TicksPerDay == 4        \* ticks of a trading loop in one UTC day

-----------------------------------------------------------------------------
(* Configuration: RiskConfig and OptionsRiskConfig defaults *)

max_position_size_pct == 20
max_position_size_usd == 5000
max_num_positions == 5
max_total_exposure_pct == 80
daily_loss_limit_pct == 5
max_drawdown_pct == 15
max_consecutive_losses == 5
cooldown_after_circuit_break_min == 60

opt_max_premium_at_risk_pct == 30
opt_max_single_trade_premium_pct == 5
opt_max_positions == 10
opt_max_positions_per_underlying == 5
opt_max_drawdown_pct == 20
opt_daily_loss_limit_pct == 5
opt_max_consecutive_losses == 4
cooldown_minutes == 60

NoneTime == -1          \* circuit_break_until = None
NoDay == 0              \* _day_str = ""

\* archive/exchange_adapter.py
initial_balance == 10000
PaperScale == 10000     \* balance unit: 1 / 10000 of the quote currency
SlippagePer == 5        \* slippage = 0.0005 = 5 balance units per unit of price
CommissionDiv == 1000   \* commission_rate = 0.001 = 1 / 1000
NoPrice == -1           \* price = None, stop_price = None
PriceUnavailable == -2  \* get_price raised

\* platforms/deribit/adapter.py
initial_balance_usd == 10000
CashScale == 10000      \* cash unit: 1 / 10000 USD
TakerFee == 3           \* commission = cost_usd * 0.0003 = 3 cash units per USD
QtyScale == 100         \* quantity unit: 1 / 100 contract

\* shared_strategies/options/strategies.py: default_params
momentum_size_pct == 3
profit_target_pct == 50
stop_loss_pct == 30
vol_size_pct == 5
exit_iv_reversion_pct == 50
spot_holding_usd == 5000
max_monthly_hedge_cost_pct == 2
OneContract == QtyScale \* quantity: float = 1.0
NoPosition == [id |-> 0]        \* buy_option, sell_option return None
NoGroup == <<"", 0>>            \* leg_group = None; a builder returns None

\* OptionContract
Contract(underlying, option_type) ==
    [underlying |-> underlying, option_type |-> option_type]

\* price * contract.spot_price * quantity, in cash units
usd_units(quote, quantity) == quote * quantity * (CashScale \div QtyScale)

\* cost_usd * 0.0003, in cash units
taker_fee(quote, quantity) == (quote * quantity * TakerFee) \div QtyScale

-----------------------------------------------------------------------------
(* Helpers *)

RECURSIVE SumOver(_, _)
SumOver(f, S) ==
    IF S = {} THEN 0
    ELSE LET k == CHOOSE x \in S : TRUE IN f[k] + SumOver(f, S \ {k})

\* sum(positions.values())
sum_values(positions) == SumOver(positions, DOMAIN positions)

Min(a, b) == IF a <= b THEN a ELSE b

Max(a, b) == IF a >= b THEN a ELSE b

\* symbol.split("/")[0]
split_base(symbol) ==
    CASE symbol = "BTC/USDT" -> "BTC"
      [] symbol = "DOGE/USDT" -> "DOGE"
      [] OTHER -> symbol

Result(allowed, reason) == [allowed |-> allowed, reason |-> reason]

-----------------------------------------------------------------------------
(* RiskManager and OptionsRiskManager *)

\* __init__ of both classes
RiskInit ==
    [peak_portfolio_value |-> 0,
     daily_start_value |-> 0,
     daily_pnl |-> 0,
     consecutive_losses |-> 0,
     circuit_break_active |-> FALSE,
     circuit_break_until |-> NoneTime,
     day_str |-> NoDay]

RiskManager_reset_daily(s, day, portfolio_value) ==
    IF day # s.day_str
    THEN [s EXCEPT !.day_str = day,
                   !.daily_start_value = portfolio_value,
                   !.daily_pnl = 0,
                   !.peak_portfolio_value =
                       IF portfolio_value > @ THEN portfolio_value ELSE @]
    ELSE s

OptionsRiskManager_reset_daily(s, day, portfolio_value) ==
    IF day # s.day_str
    THEN [s EXCEPT !.day_str = day,
                   !.daily_start_value = portfolio_value,
                   !.daily_pnl = 0]
    ELSE s

update_peak(s, portfolio_value) ==
    IF portfolio_value > s.peak_portfolio_value
    THEN [s EXCEPT !.peak_portfolio_value = portfolio_value]
    ELSE s

\* variant of record_trade_result in which a winning trade also clears the breaker
record_trade_result_clears(s, pnl) ==
    [s EXCEPT !.daily_pnl = @ + pnl,
              !.consecutive_losses = IF pnl < 0 THEN @ + 1 ELSE 0,
              !.circuit_break_active = IF pnl < 0 THEN @ ELSE FALSE]

record_trade_result(s, pnl) ==
    [s EXCEPT !.daily_pnl = @ + pnl,
              !.consecutive_losses = IF pnl < 0 THEN @ + 1 ELSE 0]

\* variant of _trigger_circuit_break that also forgets the day's PnL
trigger_circuit_break_zeroes(s, t) ==
    [s EXCEPT !.circuit_break_active = TRUE,
              !.circuit_break_until = t + cooldown_after_circuit_break_min,
              !.daily_pnl = 0]

RiskManager_trigger_circuit_break(s, t) ==
    [s EXCEPT !.circuit_break_active = TRUE,
              !.circuit_break_until = t + cooldown_after_circuit_break_min]

OptionsRiskManager_trigger_circuit_break(s, t) ==
    [s EXCEPT !.circuit_break_active = TRUE,
              !.circuit_break_until = t + cooldown_minutes]

\* self.config.max_positions of the OptionsRiskManager: the --max-positions
\* argument of the options trader where it was started with one, the default
\* of OptionsRiskConfig otherwise
config_max_positions ==
    IF "max_positions" \in DOMAIN trader THEN trader.max_positions ELSE opt_max_positions

\* the cooldown test at the head of check_can_trade
cooldown_running(s, t) ==
    /\ s.circuit_break_active
    /\ s.circuit_break_until # NoneTime
    /\ t < s.circuit_break_until

\* variant of clear_expired_breaker that keeps the loss counter
clear_expired_breaker_keeps_losses(s, t) ==
    IF s.circuit_break_active /\ ~cooldown_running(s, t)
    THEN [s EXCEPT !.circuit_break_active = FALSE]
    ELSE s

\* the else-branch of the cooldown test: the breaker is cleared
clear_expired_breaker(s, t) ==
    IF s.circuit_break_active /\ ~cooldown_running(s, t)
    THEN [s EXCEPT !.circuit_break_active = FALSE, !.consecutive_losses = 0]
    ELSE s

\* variant of RiskManager.check_can_trade that counts the positions before it
\* tests the size of the proposed trade
RiskManager_check_can_trade_count_first(s, t, day, portfolio_value, proposed_trade_usd, symbol, current_positions) ==
    LET s1 == RiskManager_reset_daily(s, day, portfolio_value)
        s2 == clear_expired_breaker(s1, t)
        positions == current_positions
        active_positions == {k \in DOMAIN positions : positions[k] > 0}
    IN
    IF cooldown_running(s1, t)
    THEN [rm |-> s1, result |-> Result(FALSE, "breaker_active")]
    ELSE IF s2.consecutive_losses >= max_consecutive_losses
    THEN [rm |-> RiskManager_trigger_circuit_break(s2, t),
          result |-> Result(FALSE, "consecutive_losses")]
    ELSE IF /\ s2.daily_start_value > 0
            /\ s2.daily_pnl * 100 <= -daily_loss_limit_pct * s2.daily_start_value
    THEN [rm |-> RiskManager_trigger_circuit_break(s2, t),
          result |-> Result(FALSE, "daily_loss")]
    ELSE IF /\ s2.peak_portfolio_value > 0
            /\ (portfolio_value - s2.peak_portfolio_value) * 100
                   <= -max_drawdown_pct * s2.peak_portfolio_value
    THEN [rm |-> RiskManager_trigger_circuit_break(s2, t),
          result |-> Result(FALSE, "max_drawdown")]
    ELSE IF /\ Cardinality(active_positions) >= max_num_positions
            /\ symbol # ""
            /\ split_base(symbol) \notin active_positions
    THEN [rm |-> s2, result |-> Result(FALSE, "max_positions")]
    ELSE IF /\ proposed_trade_usd > 0
            /\ \/ proposed_trade_usd * 100 > portfolio_value * max_position_size_pct
               \/ proposed_trade_usd > max_position_size_usd
    THEN [rm |-> s2, result |-> Result(FALSE, "position_too_large")]
    ELSE IF /\ DOMAIN positions # {}
            /\ portfolio_value > 0
            /\ (sum_values(positions) + proposed_trade_usd) * 100
                   > max_total_exposure_pct * portfolio_value
    THEN [rm |-> s2, result |-> Result(FALSE, "total_exposure")]
    ELSE [rm |-> s2, result |-> Result(TRUE, "OK")]

\* RiskManager.check_can_trade(portfolio_value, proposed_trade_usd, symbol,
\* current_positions) at time t on day `day`: the new fields and the result.
RiskManager_check_can_trade(s, t, day, portfolio_value, proposed_trade_usd, symbol, current_positions) ==
    LET s1 == RiskManager_reset_daily(s, day, portfolio_value)
        s2 == clear_expired_breaker(s1, t)
        positions == current_positions
        active_positions == {k \in DOMAIN positions : positions[k] > 0}
    IN
    IF cooldown_running(s1, t)
    THEN [rm |-> s1, result |-> Result(FALSE, "breaker_active")]
    ELSE IF s2.consecutive_losses >= max_consecutive_losses
    THEN [rm |-> RiskManager_trigger_circuit_break(s2, t),
          result |-> Result(FALSE, "consecutive_losses")]
    ELSE IF /\ s2.daily_start_value > 0
            /\ s2.daily_pnl * 100 <= -daily_loss_limit_pct * s2.daily_start_value
    THEN [rm |-> RiskManager_trigger_circuit_break(s2, t),
          result |-> Result(FALSE, "daily_loss")]
    ELSE IF /\ s2.peak_portfolio_value > 0
            /\ (portfolio_value - s2.peak_portfolio_value) * 100
                   <= -max_drawdown_pct * s2.peak_portfolio_value
    THEN [rm |-> RiskManager_trigger_circuit_break(s2, t),
          result |-> Result(FALSE, "max_drawdown")]
    ELSE IF /\ proposed_trade_usd > 0
            /\ \/ proposed_trade_usd * 100 > portfolio_value * max_position_size_pct
               \/ proposed_trade_usd > max_position_size_usd
    THEN [rm |-> s2, result |-> Result(FALSE, "position_too_large")]
    ELSE IF /\ Cardinality(active_positions) >= max_num_positions
            /\ symbol # ""
            /\ split_base(symbol) \notin active_positions
    THEN [rm |-> s2, result |-> Result(FALSE, "max_positions")]
    ELSE IF /\ DOMAIN positions # {}
            /\ portfolio_value > 0
            /\ (sum_values(positions) + proposed_trade_usd) * 100
                   > max_total_exposure_pct * portfolio_value
    THEN [rm |-> s2, result |-> Result(FALSE, "total_exposure")]
    ELSE [rm |-> s2, result |-> Result(TRUE, "OK")]

\* OptionsRiskManager.check_can_trade(adapter, proposed_premium_usd,
\* proposed_side, underlying).  `adapter` is what the adapter's getters
\* return during the call: portfolio_value, the number of positions, the
\* number of positions per underlying and the premium at risk.
OptionsRiskManager_check_can_trade(s, t, day, adapter, proposed_premium_usd, proposed_side, underlying) ==
    LET portfolio_value == adapter.portfolio_value
        s1 == OptionsRiskManager_reset_daily(s, day, portfolio_value)
        s2 == clear_expired_breaker(s1, t)
    IN
    IF cooldown_running(s1, t)
    THEN [rm |-> s1, result |-> Result(FALSE, "breaker_active")]
    ELSE IF s2.consecutive_losses >= opt_max_consecutive_losses
    THEN [rm |-> OptionsRiskManager_trigger_circuit_break(s2, t),
          result |-> Result(FALSE, "consecutive_losses")]
    ELSE IF /\ s2.daily_start_value > 0
            /\ s2.daily_pnl * 100 <= -opt_daily_loss_limit_pct * s2.daily_start_value
    THEN [rm |-> s2, result |-> Result(FALSE, "daily_loss")]
    ELSE IF /\ s2.peak_portfolio_value > 0
            /\ (portfolio_value - s2.peak_portfolio_value) * 100
                   <= -opt_max_drawdown_pct * s2.peak_portfolio_value
    THEN [rm |-> s2, result |-> Result(FALSE, "max_drawdown")]
    ELSE IF adapter.num_positions >= config_max_positions
    THEN [rm |-> s2, result |-> Result(FALSE, "max_positions")]
    ELSE IF /\ underlying # ""
            /\ adapter.underlying_count >= opt_max_positions_per_underlying
    THEN [rm |-> s2, result |-> Result(FALSE, "max_positions_underlying")]
    ELSE IF /\ proposed_premium_usd > 0
            /\ portfolio_value > 0
            /\ proposed_premium_usd * 100
                   > opt_max_single_trade_premium_pct * portfolio_value
    THEN [rm |-> s2, result |-> Result(FALSE, "position_too_large")]
    ELSE IF /\ proposed_side = "buy"
            /\ portfolio_value > 0
            /\ (adapter.premium_at_risk + proposed_premium_usd) * 100
                   > opt_max_premium_at_risk_pct * portfolio_value
    THEN [rm |-> s2, result |-> Result(FALSE, "premium_at_risk")]
    ELSE [rm |-> s2, result |-> Result(TRUE, "OK")]

-----------------------------------------------------------------------------------------------------------------------------------------------------
(* Inputs of the risk managers' callers *)

PortfolioValues == {80, 100}
TradePnls == {-1, 1}
ProposedUsd == {0, 10, 30}
Symbols == {"BTC/USDT", "DOGE/USDT"}
HeldAssets == {"BTC", "ETH", "SOL", "ADA", "XRP"}
EmptyBook == [k \in {} |-> 0]
PositionBooks == {EmptyBook, [k \in HeldAssets |-> 10], [k \in HeldAssets |-> 20]}

\* what the options adapter's getters can return during a check
AdapterView(pv, n, nu, par) ==
    [portfolio_value |-> pv, num_positions |-> n, underlying_count |-> nu,
     premium_at_risk |-> par]
EmptyAdapterViews == {AdapterView(pv, 0, 0, 0) : pv \in PortfolioValues}
AdapterViews ==
    {AdapterView(pv, c[1], c[2], par) :
        pv \in PortfolioValues,
        c \in {<<0, 0>>, <<5, 5>>, <<10, 0>>, <<10, 5>>},
        par \in {0, 40}}
ProposedPremiums == {0, 10}
Sides == {"buy", "sell"}
Underlyings == {"BTC"}

NoCall == [op |-> "none"]

MaxConsecutive == IF variant = "spot" THEN max_consecutive_losses
                  ELSE opt_max_consecutive_losses

Cooldown == IF variant = "spot" THEN cooldown_after_circuit_break_min
            ELSE cooldown_minutes

\* history variable `owed`: a state with consecutive_losses >= max has been
\* seen and no check has found a cooldown elapsed since
OwedAfter(cleared, s) ==
    IF cleared THEN s.consecutive_losses >= MaxConsecutive
    ELSE owed \/ s.consecutive_losses >= MaxConsecutive

-----------------------------------------------------------------------------
(* Actions of the risk-manager specifications *)

AdvanceClock ==
    /\ now + TimeStep <= MaxTicks * TimeStep
    /\ now' = now + TimeStep
    /\ \E d \in {today, today + 1} :
          /\ d <= MaxDays
          /\ today' = d
    /\ ret' = NoCall
    /\ UNCHANGED <<variant, rm, owed, loss_trip_until, limit_trip_until>>
    /\ UNCHANGED nonRiskVars

ResetDaily ==
    \E pv \in PortfolioValues :
        /\ rm' = IF variant = "spot"
                 THEN RiskManager_reset_daily(rm, today, pv)
                 ELSE OptionsRiskManager_reset_daily(rm, today, pv)
        /\ ret' = NoCall
        /\ UNCHANGED <<variant, now, today, owed, loss_trip_until, limit_trip_until>>
        /\ UNCHANGED nonRiskVars

UpdatePeak ==
    \E pv \in PortfolioValues :
        /\ rm' = update_peak(rm, pv)
        /\ ret' = NoCall
        /\ UNCHANGED <<variant, now, today, owed, loss_trip_until, limit_trip_until>>
        /\ UNCHANGED nonRiskVars

RecordTradeResult ==
    \E pnl \in TradePnls :
        /\ rm.daily_pnl + pnl >= -MaxDailyLoss
        /\ rm.daily_pnl + pnl <= MaxDailyGain
        /\ pnl < 0 => rm.consecutive_losses < MaxLosses
        /\ rm' = record_trade_result(rm, pnl)
        /\ ret' = NoCall
        /\ owed' = OwedAfter(FALSE, rm')
        /\ UNCHANGED <<variant, now, today, loss_trip_until, limit_trip_until>>
        /\ UNCHANGED nonRiskVars

\* effect of a check_can_trade call whose outcome is `out`
Checked(args, out) ==
    /\ rm' = out.rm
    /\ ret' = [op |-> "check_can_trade", at |-> now, pre |-> rm,
               args |-> args, result |-> out.result]
    /\ owed' = OwedAfter(rm.circuit_break_active
                            /\ out.result.reason # "breaker_active", out.rm)
    /\ loss_trip_until' =
          IF out.result.reason = "consecutive_losses"
          THEN out.rm.circuit_break_until
          ELSE loss_trip_until
    /\ limit_trip_until' =
          IF out.result.reason \in {"daily_loss", "max_drawdown"}
          THEN now + Cooldown
          ELSE limit_trip_until

SpotCheck(PVs, Usds, Syms, Books) ==
    /\ variant = "spot"
    /\ \E pv \in PVs, usd \in Usds, sym \in Syms, book \in Books :
          Checked([portfolio_value |-> pv, proposed_trade_usd |-> usd,
                   symbol |-> sym, current_positions |-> book],
                  RiskManager_check_can_trade(rm, now, today, pv, usd, sym, book))
    /\ UNCHANGED <<variant, now, today>>
    /\ UNCHANGED nonRiskVars

OptionsCheck(Views, Prems, Sds, Unds) ==
    /\ variant = "options"
    /\ \E av \in Views, prem \in Prems, side \in Sds, und \in Unds :
          Checked([adapter |-> av, proposed_premium_usd |-> prem,
                   proposed_side |-> side, underlying |-> und],
                  OptionsRiskManager_check_can_trade(rm, now, today, av, prem,
                                                     side, und))
    /\ UNCHANGED <<variant, now, today>>
    /\ UNCHANGED nonRiskVars

\* check_can_trade(portfolio_value) and check_can_trade(adapter): the other
\* arguments keep their defaults
SpotCheckCanTrade == SpotCheck(PortfolioValues, {0}, {""}, {EmptyBook})
OptionsCheckCanTrade == OptionsCheck(EmptyAdapterViews, {0}, {"buy"}, {""})

\* check_can_trade with a proposed trade
SpotCheckProposed == SpotCheck(PortfolioValues, ProposedUsd, Symbols, PositionBooks)
OptionsCheckProposed ==
    OptionsCheck(AdapterViews, ProposedPremiums, Sides, Underlyings)

-----------------------------------------------------------------------------
(* The paper ExchangeAdapter.  The balance and the fill prices are kept in  *)
(* 1/PaperScale of the quote currency, so that the 0.05% slippage is an     *)
(* integer; the 0.1% commission is one too when quantity times price is a   *)
(* multiple of 200, as it is for the inputs below.                          *)

\* ExchangeAdapter.__init__ and Order._id_counter
PaperInit ==
    [balance |-> initial_balance * PaperScale,
     positions |-> [k \in {} |-> 0],
     orders |-> <<>>,
     trades |-> <<>>,
     id_counter |-> 0]

\* dict.get(key, 0)
get_or_zero(d, k) == IF k \in DOMAIN d THEN d[k] ELSE 0

\* d[key] = value
dict_set(d, k, v) == [x \in DOMAIN d \cup {k} |-> IF x = k THEN v ELSE d[x]]

\* Order.__init__
Order(id, symbol, side, order_type, quantity, price, stop_price) ==
    [id |-> id, symbol |-> symbol, side |-> side, order_type |-> order_type,
     quantity |-> quantity, price |-> price, stop_price |-> stop_price,
     status |-> "pending", filled_price |-> NoPrice, filled_quantity |-> 0,
     commission |-> 0]

\* variant of fill_order that books a buy before it tests the funds
fill_order_books_first(p, order, fill_price) ==
    LET base_currency == split_base(order.symbol)
        cost == order.quantity * fill_price
        commission == cost \div CommissionDiv
        filled == [order EXCEPT !.filled_price = fill_price,
                                !.filled_quantity = order.quantity,
                                !.commission = commission,
                                !.status = "filled"]
        booked == [p EXCEPT !.balance = @ - (cost + commission),
                            !.positions = dict_set(@, base_currency,
                                get_or_zero(@, base_currency) + order.quantity)]
    IN
    IF order.side = "buy"
    THEN IF p.balance < cost + commission
         THEN [paper |-> booked, order |-> [order EXCEPT !.status = "failed"]]
         ELSE [paper |-> [booked EXCEPT !.trades = Append(@, filled)],
               order |-> filled]
    ELSE IF get_or_zero(p.positions, base_currency) < order.quantity
         THEN [paper |-> p, order |-> [order EXCEPT !.status = "failed"]]
         ELSE [paper |->
                  [p EXCEPT !.positions = dict_set(@, base_currency,
                                get_or_zero(@, base_currency) - order.quantity),
                            !.balance = @ + cost - commission,
                            !.trades = Append(@, filled)],
               order |-> filled]

\* variant of the fill that tests neither the funds nor the base quantity
fill_order_untested(p, order, fill_price) ==
    LET base_currency == split_base(order.symbol)
        cost == order.quantity * fill_price
        commission == cost \div CommissionDiv
        filled == [order EXCEPT !.filled_price = fill_price,
                                !.filled_quantity = order.quantity,
                                !.commission = commission,
                                !.status = "filled"]
    IN [paper |->
           [p EXCEPT !.balance = IF order.side = "buy" THEN @ - (cost + commission)
                                 ELSE @ + cost - commission,
                     !.positions = dict_set(@, base_currency,
                         get_or_zero(@, base_currency)
                             + (IF order.side = "buy" THEN order.quantity
                                ELSE -order.quantity)),
                     !.trades = Append(@, filled)],
        order |-> filled]

\* "Execute the fill" in _execute_paper_order: the funds or the base quantity
\* are tested, then the balance and the position are updated, the order is
\* marked filled and recorded in the trade history
fill_order(p, order, fill_price) ==
    LET base_currency == split_base(order.symbol)
        cost == order.quantity * fill_price
        commission == cost \div CommissionDiv
        filled == [order EXCEPT !.filled_price = fill_price,
                                !.filled_quantity = order.quantity,
                                !.commission = commission,
                                !.status = "filled"]
    IN
    IF order.side = "buy"
    THEN IF p.balance < cost + commission
         THEN [paper |-> p, order |-> [order EXCEPT !.status = "failed"]]
         ELSE [paper |->
                  [p EXCEPT !.balance = @ - (cost + commission),
                            !.positions = dict_set(@, base_currency,
                                get_or_zero(@, base_currency) + order.quantity),
                            !.trades = Append(@, filled)],
               order |-> filled]
    ELSE IF get_or_zero(p.positions, base_currency) < order.quantity
         THEN [paper |-> p, order |-> [order EXCEPT !.status = "failed"]]
         ELSE [paper |->
                  [p EXCEPT !.positions = dict_set(@, base_currency,
                                get_or_zero(@, base_currency) - order.quantity),
                            !.balance = @ + cost - commission,
                            !.trades = Append(@, filled)],
               order |-> filled]

\* market orders are filled at the last price, without slippage
execute_paper_order_at_last(p, order, venue) ==
    IF venue = PriceUnavailable
    THEN [paper |-> p, order |-> [order EXCEPT !.status = "failed"]]
    ELSE fill_order(p, order, venue * PaperScale)

\* _execute_paper_order(order) when get_price answers `venue`
\* (PriceUnavailable: the venue raised)
execute_paper_order(p, order, venue) ==
    LET current_price == venue
        opened == [order EXCEPT !.status = "open"]
    IN
    IF venue = PriceUnavailable
    THEN [paper |-> p, order |-> [order EXCEPT !.status = "failed"]]
    ELSE IF order.order_type = "market"
    THEN fill_order(p, order,
                    IF order.side = "buy"
                    THEN current_price * (PaperScale + SlippagePer)
                    ELSE current_price * (PaperScale - SlippagePer))
    ELSE IF order.order_type = "limit"
    THEN IF order.price = NoPrice
         THEN [paper |-> p, order |-> [order EXCEPT !.status = "failed"]]
         ELSE IF order.side = "buy" /\ order.price >= current_price
         THEN fill_order(p, order, Min(order.price, current_price) * PaperScale)
         ELSE IF order.side = "sell" /\ order.price <= current_price
         THEN fill_order(p, order, Max(order.price, current_price) * PaperScale)
         ELSE [paper |-> [p EXCEPT !.orders = Append(@, opened)],
               order |-> opened]
    ELSE [paper |-> [p EXCEPT !.orders = Append(@, opened)], order |-> opened]

\* place_order(symbol, side, order_type, quantity, price, stop_price)
place_order(p, symbol, side, order_type, quantity, price, stop_price, venue) ==
    LET counted == [p EXCEPT !.id_counter = @ + 1]
    IN execute_paper_order(counted,
           Order(counted.id_counter, symbol, side, order_type, quantity, price,
                 stop_price),
           venue)

\* index of the order cancel_order(order_id) reaches, 0 if there is none
first_open_with_id(orders, order_id) ==
    LET hits == {i \in 1..Len(orders) :
                    orders[i].id = order_id /\ orders[i].status = "open"}
    IN IF hits = {} THEN 0 ELSE CHOOSE i \in hits : \A j \in hits : i <= j

\* variant of cancel_order that does not look at the order's status
cancel_order_any_status(p, order_id) ==
    LET hits == {i \in 1..Len(p.orders) : p.orders[i].id = order_id}
        i == IF hits = {} THEN 0 ELSE CHOOSE h \in hits : \A j \in hits : h <= j
    IN IF i = 0 THEN [paper |-> p, result |-> FALSE]
       ELSE [paper |-> [p EXCEPT !.orders[i].status = "cancelled"],
             result |-> TRUE]

\* cancel_order(order_id) in paper mode
cancel_order(p, order_id) ==
    LET i == first_open_with_id(p.orders, order_id)
    IN IF i = 0 THEN [paper |-> p, result |-> FALSE]
       ELSE [paper |-> [p EXCEPT !.orders[i].status = "cancelled"],
             result |-> TRUE]

\* variant of the test that does not look at the order's status
stop_triggered_any_status(order, symbol, current_price) ==
    /\ order.symbol = symbol
    /\ order.stop_price # NoPrice
    /\ \/ order.side = "sell" /\ current_price <= order.stop_price
       \/ order.side = "buy" /\ current_price >= order.stop_price

\* the test check_pending_stops makes on one order
stop_triggered(order, symbol, current_price) ==
    /\ order.status = "open"
    /\ order.symbol = symbol
    /\ order.order_type = "stop_loss"
    /\ \/ order.side = "sell" /\ current_price <= order.stop_price
       \/ order.side = "buy" /\ current_price >= order.stop_price

\* what the paper books hold besides the orders
books_of(p) == [balance |-> p.balance, positions |-> p.positions, trades |-> p.trades]

\* check_pending_stops(symbol, current_price) from the i-th order on;
\* venue[i] is what get_price answers when the i-th order is executed.
\* acc.execs records every _execute_paper_order the loop has made.
RECURSIVE pending_stops_from(_, _, _, _, _)
pending_stops_from(acc, i, symbol, current_price, venue) ==
    IF i > Len(acc.paper.orders) THEN acc
    ELSE IF stop_triggered(acc.paper.orders[i], symbol, current_price)
    THEN LET out == execute_paper_order(acc.paper,
                        [acc.paper.orders[i] EXCEPT !.order_type = "market"],
                        venue[i])
             after == [out.paper EXCEPT !.orders[i] = out.order]
         IN pending_stops_from(
                [paper |-> after,
                 execs |-> acc.execs \cup
                     {[id |-> out.order.id, status |-> out.order.status,
                       pre |-> books_of(acc.paper), post |-> books_of(after)]}],
                i + 1, symbol, current_price, venue)
    ELSE pending_stops_from(acc, i + 1, symbol, current_price, venue)

check_pending_stops(p, symbol, current_price, venue) ==
    pending_stops_from([paper |-> p, execs |-> {}], 1, symbol, current_price, venue)

\* the status changes between two states of the order list, and those of
\* an order that was created in between
status_changes(before, after) ==
    {[id |-> after[i].id, from |-> before[i].status, to |-> after[i].status,
      order_type |-> before[i].order_type] :
        i \in {j \in 1..Len(before) : before[j].status # after[j].status}}

(* Inputs of the paper adapter's callers *)

PaperSymbol == "BTC/USDT"
StopSymbols == {"BTC/USDT", "ETH/USDT"}
OrderSides == {"buy", "sell"}
Quantities == {1}
VenuePrices == {2000, 10000}
VenueAnswers == VenuePrices \cup {PriceUnavailable}
\* order type, limit price, stop price
OrderShapes ==
    {<<"market", NoPrice, NoPrice>>,
     <<"limit", NoPrice, NoPrice>>,
     <<"limit", 2000, NoPrice>>,
     <<"limit", 10000, NoPrice>>,
     <<"stop_loss", NoPrice, 3000>>,
     <<"stop_limit", 2000, 3000>>}

(* Actions of the paper adapter *)

\* place_order on a venue that answers get_price with one of `answers`
PlaceOrderIn(shapes, answers) ==
    /\ paper.id_counter < MaxOrders
    /\ \E side \in OrderSides, shape \in shapes, quantity \in Quantities,
          venue \in answers :
          LET out == place_order(paper, PaperSymbol, side, shape[1], quantity,
                                 shape[2], shape[3], venue)
          IN /\ paper' = out.paper
             /\ ret' = [op |-> "place_order",
                        order |-> out.order,
                        venue |-> venue,
                        changes |-> {[id |-> out.order.id, from |-> "pending",
                                      to |-> out.order.status,
                                      order_type |-> shape[1]]},
                        execs |-> {[id |-> out.order.id,
                                    status |-> out.order.status,
                                    pre |-> books_of(paper),
                                    post |-> books_of(out.paper)]}]
    /\ UNCHANGED nonPaperVars

PlaceOrder == PlaceOrderIn(OrderShapes, VenueAnswers)

\* market orders of one quantity unit of 0.01 BTC, the prices per unit: a
\* last price of 49,000, 50,000 and 51,000
RoundTripPrices == {490, 500, 510}
MarketOrder ==
    PlaceOrderIn({<<"market", NoPrice, NoPrice>>}, RoundTripPrices \cup {PriceUnavailable})

CancelOrder ==
    /\ \E order_id \in 1..MaxOrders :
          LET out == cancel_order(paper, order_id)
          IN /\ paper' = out.paper
             /\ ret' = [op |-> "cancel_order", result |-> out.result,
                        changes |-> status_changes(paper.orders, out.paper.orders),
                        execs |-> {}]
    /\ UNCHANGED nonPaperVars

CheckPendingStops ==
    /\ \E symbol \in StopSymbols, current_price \in VenuePrices :
          \E venue \in [{i \in 1..Len(paper.orders) :
                           stop_triggered(paper.orders[i], symbol, current_price)}
                       -> VenueAnswers] :
             LET out == check_pending_stops(paper, symbol, current_price, venue)
             IN /\ paper' = out.paper
                /\ ret' = [op |-> "check_pending_stops",
                           symbol |-> symbol, current_price |-> current_price,
                           changes |-> status_changes(paper.orders, out.paper.orders),
                           execs |-> out.execs]
    /\ UNCHANGED nonPaperVars

PaperStart == paper = PaperInit

-----------------------------------------------------------------------------
(* The DeribitOptionsAdapter paper book.  A quote is the option price times *)
(* the spot price in USD, 0 when enrich_contract leaves no positive price;  *)
(* cash is kept in 1/CashScale USD so that the 0.03% taker fee is an        *)
(* integer.                                                                 *)

\* DeribitOptionsAdapter.__init__
AdapterInit ==
    [cash |-> initial_balance_usd * CashScale,
     positions |-> [k \in {} |-> 0],
     trades |-> <<>>,
     order_counter |-> 0]

\* variant of group_tag that names the group by the builder alone
group_tag_by_name(name, a) == <<name, 0>>

\* f"{name}_{self._order_counter + 1}"
group_tag(name, a) == <<name, a.order_counter + 1>>

\* OptionPosition(...) as buy_option and sell_option build it
OptionPosition(id, contract, side, quantity, quote, leg_group) ==
    [id |-> id, underlying |-> contract.underlying,
     option_type |-> contract.option_type, side |-> side,
     quantity |-> quantity, entry_price_usd |-> quote, current_usd |-> quote,
     leg_group |-> leg_group]

\* OptionPosition.pnl_usd, in whole USD
pnl_usd(pos) ==
    LET current == (pos.current_usd * pos.quantity) \div QtyScale
        entry == (pos.entry_price_usd * pos.quantity) \div QtyScale
    IN IF pos.side = "buy" THEN current - entry ELSE entry - current

\* OptionPosition.pnl_pct >= pct, and <= pct (the entry value is positive)
pnl_pct_at_least(pos, pct) ==
    (IF pos.side = "buy" THEN pos.current_usd - pos.entry_price_usd
     ELSE pos.entry_price_usd - pos.current_usd) * 100 >= pct * pos.entry_price_usd
pnl_pct_at_most(pos, pct) ==
    (IF pos.side = "buy" THEN pos.current_usd - pos.entry_price_usd
     ELSE pos.entry_price_usd - pos.current_usd) * 100 <= pct * pos.entry_price_usd

\* del self._positions[position_id]
dict_del(d, k) == [x \in DOMAIN d \ {k} |-> d[x]]

\* buy_option(contract, quantity, leg_group) when the enriched contract is
\* quoted at `quote`
buy_option(a, contract, quantity, leg_group, quote) ==
    LET cost_usd == usd_units(quote, quantity)
        commission == taker_fee(quote, quantity)
        id == a.order_counter + 1
        pos == OptionPosition(id, contract, "buy", quantity, quote, leg_group)
    IN IF quote <= 0
       THEN [adapter |-> a, pos |-> NoPosition]
       ELSE IF cost_usd + commission > a.cash
       THEN [adapter |-> a, pos |-> NoPosition]
       ELSE [adapter |->
                [a EXCEPT !.cash = @ - (cost_usd + commission),
                          !.order_counter = id,
                          !.positions = dict_set(@, id, pos),
                          !.trades = Append(@, [action |-> "BUY", position_id |-> id,
                                                price_usd |-> cost_usd,
                                                commission |-> commission])],
             pos |-> pos]

\* sell_option(contract, quantity, leg_group)
sell_option(a, contract, quantity, leg_group, quote) ==
    LET premium_usd == usd_units(quote, quantity)
        commission == taker_fee(quote, quantity)
        id == a.order_counter + 1
        pos == OptionPosition(id, contract, "sell", quantity, quote, leg_group)
    IN IF quote <= 0
       THEN [adapter |-> a, pos |-> NoPosition]
       ELSE [adapter |->
                [a EXCEPT !.cash = @ + (premium_usd - commission),
                          !.order_counter = id,
                          !.positions = dict_set(@, id, pos),
                          !.trades = Append(@, [action |-> "SELL", position_id |-> id,
                                                price_usd |-> premium_usd,
                                                commission |-> commission])],
             pos |-> pos]

\* variant of close_position that books the closing trade and keeps the position
close_position_keeps_position(a, position_id, venue) ==
    IF position_id \notin DOMAIN a.positions
    THEN [adapter |-> a, closed |-> FALSE, pnl_usd |-> 0]
    ELSE IF venue = PriceUnavailable
    THEN [adapter |-> a, closed |-> FALSE, pnl_usd |-> 0]
    ELSE LET pos == a.positions[position_id]
             amount == usd_units(venue, pos.quantity)
             commission == taker_fee(venue, pos.quantity)
             trade == [action |-> "CLOSE", position_id |-> position_id,
                       price_usd |-> amount, commission |-> commission]
         IN [adapter |->
                [a EXCEPT !.cash = IF pos.side = "buy"
                                   THEN @ + (amount - commission)
                                   ELSE @ - (amount + commission),
                          !.trades = Append(@, trade)],
             closed |-> TRUE, pnl_usd |-> pnl_usd(pos)]

\* close_position(position_id) when the venue answers `venue` for the
\* closing quote (PriceUnavailable: get_option_ticker or get_spot_price raised)
close_position(a, position_id, venue) ==
    IF position_id \notin DOMAIN a.positions
    THEN [adapter |-> a, closed |-> FALSE, pnl_usd |-> 0]
    ELSE IF venue = PriceUnavailable
    THEN [adapter |-> a, closed |-> FALSE, pnl_usd |-> 0]
    ELSE LET pos == a.positions[position_id]
             amount == usd_units(venue, pos.quantity)
             commission == taker_fee(venue, pos.quantity)
             trade == [action |-> "CLOSE", position_id |-> position_id,
                       price_usd |-> amount, commission |-> commission]
         IN [adapter |->
                [a EXCEPT !.cash = IF pos.side = "buy"
                                   THEN @ + (amount - commission)
                                   ELSE @ - (amount + commission),
                          !.trades = Append(@, trade),
                          !.positions = dict_del(@, position_id)],
             closed |-> TRUE, pnl_usd |-> pnl_usd(pos)]

\* the positions that carry a leg_group tag
ids_in_group(a, leg_group) ==
    {pid \in DOMAIN a.positions : a.positions[pid].leg_group = leg_group}

\* the loop of close_leg_group over ids_to_close, in the order of the dict
RECURSIVE close_ids(_, _, _)
close_ids(a, ids, venue) ==
    IF ids = {} THEN [adapter |-> a, results |-> 0, pnl_usd |-> 0]
    ELSE LET pid == CHOOSE i \in ids : \A j \in ids : i <= j
             one == close_position(a, pid, venue[pid])
             rest == close_ids(one.adapter, ids \ {pid}, venue)
         IN [adapter |-> rest.adapter,
             results |-> rest.results + (IF one.closed THEN 1 ELSE 0),
             pnl_usd |-> rest.pnl_usd + one.pnl_usd]

\* close_leg_group(leg_group)
close_leg_group(a, leg_group, venue) ==
    close_ids(a, ids_in_group(a, leg_group), venue)

\* one leg of a builder: fn = buy_option or sell_option
open_leg(a, side, contract, quantity, leg_group, quote) ==
    IF side = "buy" THEN buy_option(a, contract, quantity, leg_group, quote)
    ELSE sell_option(a, contract, quantity, leg_group, quote)

\* the two legs of a builder, filled one after the other, and its answer
two_legs(a, group, side1, contract1, side2, contract2, quantity, quotes) ==
    LET leg1 == open_leg(a, side1, contract1, quantity, group, quotes[1])
        leg2 == open_leg(leg1.adapter, side2, contract2, quantity, group, quotes[2])
    IN [adapter |-> leg2.adapter,
        group |-> IF leg1.pos # NoPosition /\ leg2.pos # NoPosition
                  THEN group ELSE NoGroup]

\* open_spread(buy_contract, sell_contract, quantity, name)
open_spread(a, buy_contract, sell_contract, quantity, name, quotes) ==
    two_legs(a, group_tag(name, a), "buy", buy_contract, "sell", sell_contract,
             quantity, quotes)

\* open_straddle(underlying, side, quantity); found: find_options returned
\* a call and a put
open_straddle(a, underlying, side, quantity, found, quotes) ==
    IF ~found THEN [adapter |-> a, group |-> NoGroup]
    ELSE two_legs(a, group_tag("straddle", a),
                  side, Contract(underlying, "call"),
                  side, Contract(underlying, "put"), quantity, quotes)

\* open_strangle(underlying, side, quantity)
open_strangle(a, underlying, side, quantity, found, quotes) ==
    IF ~found THEN [adapter |-> a, group |-> NoGroup]
    ELSE two_legs(a, group_tag("strangle", a),
                  side, Contract(underlying, "call"),
                  side, Contract(underlying, "put"), quantity, quotes)

\* variant of handle_expiries that credits the settlement to short positions too
RECURSIVE handle_expiries_credits_short(_, _, _)
handle_expiries_credits_short(a, expired, intrinsic) ==
    IF expired = {} THEN a
    ELSE LET pid == CHOOSE i \in expired : \A j \in expired : i <= j
             pos == a.positions[pid]
             settlement_usd == usd_units(intrinsic[pid], pos.quantity)
             settled ==
                 IF intrinsic[pid] > 0
                 THEN [a EXCEPT !.cash = @ + settlement_usd,
                                !.trades = Append(@, [action |-> "EXERCISED",
                                                      position_id |-> pid,
                                                      settlement_usd |-> settlement_usd]),
                                !.positions = dict_del(@, pid)]
                 ELSE [a EXCEPT !.trades = Append(@, [action |-> "EXPIRED",
                                                      position_id |-> pid]),
                                !.positions = dict_del(@, pid)]
         IN handle_expiries_credits_short(settled, expired \ {pid}, intrinsic)

\* handle_expiries(): `expired` are the positions with is_expired,
\* intrinsic[pid] the intrinsic value per contract in USD
RECURSIVE handle_expiries(_, _, _)
handle_expiries(a, expired, intrinsic) ==
    IF expired = {} THEN a
    ELSE LET pid == CHOOSE i \in expired : \A j \in expired : i <= j
             pos == a.positions[pid]
             settlement_usd == usd_units(intrinsic[pid], pos.quantity)
             settled ==
                 IF intrinsic[pid] > 0
                 THEN [a EXCEPT !.cash = IF pos.side = "buy" THEN @ + settlement_usd
                                         ELSE @ - settlement_usd,
                                !.trades = Append(@, [action |-> "EXERCISED",
                                                      position_id |-> pid,
                                                      settlement_usd |-> settlement_usd]),
                                !.positions = dict_del(@, pid)]
                 ELSE [a EXCEPT !.trades = Append(@, [action |-> "EXPIRED",
                                                      position_id |-> pid]),
                                !.positions = dict_del(@, pid)]
         IN handle_expiries(settled, expired \ {pid}, intrinsic)

\* update_positions(): marks[pid] is current_price * current_spot of the
\* new ticker, PriceUnavailable when the fetch raises and the mark is kept
update_positions(a, marks) ==
    [a EXCEPT !.positions =
        [pid \in DOMAIN a.positions |->
            IF marks[pid] = PriceUnavailable THEN a.positions[pid]
            ELSE [a.positions[pid] EXCEPT !.current_usd = marks[pid]]]]

\* get_portfolio_value(): cash plus the long positions minus the short ones,
\* at the prices the positions were last marked at
RECURSIVE mark_to_market(_, _)
mark_to_market(positions, ids) ==
    IF ids = {} THEN 0
    ELSE LET pid == CHOOSE i \in ids : TRUE
             pos == positions[pid]
             value == usd_units(pos.current_usd, pos.quantity)
         IN (IF pos.side = "buy" THEN value ELSE -value)
            + mark_to_market(positions, ids \ {pid})

get_portfolio_value(a) == a.cash + mark_to_market(a.positions, DOMAIN a.positions)

(* Inputs of the options adapter's callers *)

Quotes == {0, 6000}
CloseAnswers == {PriceUnavailable, 0, 6000}
BuilderSides == {"buy", "sell"}
UpdateMarks == {PriceUnavailable, 9000}
\* intrinsic value per contract of a position that expires in the money
Intrinsic == 1000

(* Actions of the options adapter *)

HasRoom(n) == deribit.order_counter + n <= MaxPositions

BuyOption ==
    /\ HasRoom(1)
    /\ \E option_type \in {"call"}, quote \in Quotes :
          LET out == buy_option(deribit, Contract("BTC", option_type), OneContract, NoGroup, quote)
          IN /\ deribit' = out.adapter
             /\ ret' = [op |-> "buy_option", pos |-> out.pos]
    /\ UNCHANGED nonAdapterVars

SellOption ==
    /\ HasRoom(1)
    /\ \E option_type \in {"put"}, quote \in Quotes :
          LET out == sell_option(deribit, Contract("BTC", option_type), OneContract, NoGroup, quote)
          IN /\ deribit' = out.adapter
             /\ ret' = [op |-> "sell_option", pos |-> out.pos]
    /\ UNCHANGED nonAdapterVars

ClosePosition ==
    /\ \E position_id \in 1..MaxPositions, venue \in CloseAnswers :
          LET out == close_position(deribit, position_id, venue)
          IN /\ deribit' = out.adapter
             /\ ret' = [op |-> "close_position",
                        position_id |-> position_id, closed |-> out.closed,
                        open_before |-> DOMAIN deribit.positions]
    /\ UNCHANGED nonAdapterVars

CloseLegGroup ==
    /\ \E pid \in DOMAIN deribit.positions :
          LET leg_group == deribit.positions[pid].leg_group
          IN /\ leg_group # NoGroup
             /\ \E venue \in [ids_in_group(deribit, leg_group) -> CloseAnswers] :
                   LET out == close_leg_group(deribit, leg_group, venue)
                   IN /\ deribit' = out.adapter
                      /\ ret' = [op |-> "close_leg_group",
                                 leg_group |-> leg_group,
                                 legs |-> Cardinality(ids_in_group(deribit, leg_group)),
                                 results |-> out.results]
    /\ UNCHANGED nonAdapterVars

\* handle_expiries() when `expired` are the positions past their expiry;
\* spot_raises: get_spot_price raises for the first of them, before any
\* position is settled (the later ones read the cached spot price)
HandleExpiries ==
    /\ \E expired \in SUBSET DOMAIN deribit.positions, spot_raises \in BOOLEAN,
          intrinsic \in [DOMAIN deribit.positions -> {0, Intrinsic}] :
          /\ \A pid \in DOMAIN deribit.positions \ expired : intrinsic[pid] = 0
          /\ spot_raises => expired # {}
          /\ deribit' = IF spot_raises THEN deribit
                        ELSE handle_expiries(deribit, expired, intrinsic)
          /\ ret' = [op |-> "handle_expiries", raised |-> spot_raises,
                     expired |-> expired, intrinsic |-> intrinsic, pre |-> deribit]
    /\ UNCHANGED nonAdapterVars

\* update_positions() when the venue answers marks[pid] for each position
UpdatePositions ==
    /\ DOMAIN deribit.positions # {}
    /\ \E marks \in [DOMAIN deribit.positions -> UpdateMarks] :
          /\ deribit' = update_positions(deribit, marks)
          /\ ret' = [op |-> "update_positions"]
    /\ UNCHANGED nonAdapterVars

\* effect of a builder call whose outcome is `out`
Built(op, out) ==
    /\ deribit' = out.adapter
    /\ ret' = [op |-> op, group |-> out.group,
               pre |-> [cash |-> deribit.cash, positions |-> deribit.positions]]

OpenSpread ==
    /\ HasRoom(2)
    /\ \E quotes \in Quotes \X Quotes :
          Built("open_spread",
                open_spread(deribit, Contract("BTC", "call"), Contract("BTC", "call"),
                            OneContract, "spread", quotes))
    /\ UNCHANGED nonAdapterVars

OpenStraddle ==
    /\ HasRoom(2)
    /\ \E side \in BuilderSides, found \in BOOLEAN, quotes \in Quotes \X Quotes :
          Built("open_straddle",
                open_straddle(deribit, "BTC", side, OneContract, found, quotes))
    /\ UNCHANGED nonAdapterVars

OpenStrangle ==
    /\ HasRoom(2)
    /\ \E side \in BuilderSides, found \in BOOLEAN, quotes \in Quotes \X Quotes :
          Built("open_strangle",
                open_strangle(deribit, "BTC", side, OneContract, found, quotes))
    /\ UNCHANGED nonAdapterVars

AdapterStart == deribit = AdapterInit

-----------------------------------------------------------------------------
(* The options adapter with two threads: one inside buy_option or            *)
(* open_straddle, statement by statement, and one calling the getters.       *)
(* The adapter holds no lock, so the getters run between any two statements. *)

Idle == [at |-> "idle"]

LegQuotes == {0, 3000, 6000}

\* the method returns: the book is between two operations again
Returned ==
    /\ pc' = Idle
    /\ committed' = deribit'

\* buy_option(contract, quantity) is called: enrich_contract, the price and
\* cash tests, and `self._cash_usd -= (cost_usd + commission)`
CallBuyOption ==
    /\ pc = Idle
    /\ HasRoom(1)
    /\ \E quote \in LegQuotes :
          IF quote <= 0 \/ usd_units(quote, OneContract) + taker_fee(quote, OneContract) > deribit.cash
          THEN /\ deribit' = deribit
               /\ Returned
          ELSE /\ deribit' = [deribit EXCEPT !.cash = @ - (usd_units(quote, OneContract) + taker_fee(quote, OneContract))]
               /\ pc' = [at |-> "debited", op |-> "buy_option", leg |-> 2,
                         option_type |-> "call", group |-> NoGroup, quote |-> quote]
               /\ UNCHANGED committed
    /\ ret' = NoCall
    /\ UNCHANGED <<riskVars, paper, trader, entryVars>>

\* open_straddle(underlying, side = BUY) is called: find_options and the
\* group tag
CallOpenStraddle ==
    /\ pc = Idle
    /\ HasRoom(2)
    /\ pc' = [at |-> "leg", op |-> "open_straddle", leg |-> 1,
              group |-> group_tag("straddle", deribit)]
    /\ ret' = NoCall
    /\ UNCHANGED <<riskVars, paper, trader, entryVars, deribit, committed>>

\* the builder calls buy_option for its next leg: as CallBuyOption; a leg
\* that does not fill is skipped
LegDebit ==
    /\ pc.at = "leg"
    /\ \E quote \in LegQuotes :
          IF quote <= 0 \/ usd_units(quote, OneContract) + taker_fee(quote, OneContract) > deribit.cash
          THEN /\ deribit' = deribit
               /\ IF pc.leg = 1
                  THEN pc' = [pc EXCEPT !.leg = 2] /\ UNCHANGED committed
                  ELSE Returned
          ELSE /\ deribit' = [deribit EXCEPT !.cash = @ - (usd_units(quote, OneContract) + taker_fee(quote, OneContract))]
               /\ pc' = [at |-> "debited", op |-> pc.op, leg |-> pc.leg,
                         option_type |-> IF pc.leg = 1 THEN "call" ELSE "put",
                         group |-> pc.group, quote |-> quote]
               /\ UNCHANGED committed
    /\ ret' = NoCall
    /\ UNCHANGED <<riskVars, paper, trader, entryVars>>

\* `id=self._next_order_id()` and `self._positions[pos.id] = pos`
InsertPosition ==
    /\ pc.at = "debited"
    /\ LET id == deribit.order_counter + 1
           pos == OptionPosition(id, Contract("BTC", pc.option_type), "buy", OneContract,
                                 pc.quote, pc.group)
       IN deribit' = [deribit EXCEPT !.order_counter = id,
                                     !.positions = dict_set(@, id, pos)]
    /\ pc' = [pc EXCEPT !.at = "inserted"]
    /\ ret' = NoCall
    /\ UNCHANGED <<riskVars, paper, trader, entryVars, committed>>

\* `self._trades.append(...)` and the return of buy_option
AppendTrade ==
    /\ pc.at = "inserted"
    /\ deribit' = [deribit EXCEPT !.trades =
                      Append(@, [action |-> "BUY",
                                 position_id |-> deribit.order_counter,
                                 price_usd |-> usd_units(pc.quote, OneContract),
                                 commission |-> taker_fee(pc.quote, OneContract)])]
    /\ IF pc.leg = 1
       THEN /\ pc' = [at |-> "leg", op |-> pc.op, leg |-> 2, group |-> pc.group]
            /\ UNCHANGED committed
       ELSE Returned
    /\ ret' = NoCall
    /\ UNCHANGED <<riskVars, paper, trader, entryVars>>

\* the other thread calls get_positions, get_cash and get_portfolio_value
Observe ==
    /\ ret' = [op |-> "observe",
               positions |-> deribit.positions,
               cash |-> deribit.cash,
               portfolio_value |-> get_portfolio_value(deribit),
               between |-> [positions |-> committed.positions,
                            cash |-> committed.cash,
                            portfolio_value |-> get_portfolio_value(committed)]]
    /\ UNCHANGED <<riskVars, paper, trader, entryVars, deribit, concVars>>

ConcStart ==
    /\ pc = Idle
    /\ committed = AdapterInit

-----------------------------------------------------------------------------
(* LiveTrader: the spot trading loop over the paper ExchangeAdapter.  The   *)
(* risk manager is given whole units of the quote currency and the order    *)
(* quantity is a whole number of base units (both rounded down).            *)

NoOrder == [id |-> 0, status |-> "none"]

\* LiveTrader.__init__: the risk manager starts from the initial capital
LiveTraderRisk ==
    [RiskInit EXCEPT !.peak_portfolio_value = initial_balance,
                     !.daily_start_value = initial_balance]

\* ExchangeAdapter.get_positions() in paper mode
paper_get_positions(p) == {k \in DOMAIN p.positions : p.positions[k] > 0}

\* ExchangeAdapter.get_portfolio_value(): an asset whose price cannot be
\* fetched is left out
paper_get_portfolio_value(p, venue) ==
    p.balance
    + (IF venue = PriceUnavailable THEN 0
       ELSE SumOver([k \in paper_get_positions(p) |-> p.positions[k] * venue * PaperScale],
                    paper_get_positions(p)))

\* LiveTrader._get_position_values(), in whole units of the quote currency
get_position_values(p, venue) ==
    [k \in paper_get_positions(p) |->
        IF venue = PriceUnavailable THEN 0 ELSE p.positions[k] * venue]

\* the proposed_trade_usd that _check_symbol hands to check_can_trade for a
\* BUY: portfolio_value * 0.15
buy_proposed_trade_usd(portfolio_value) == (portfolio_value * 15) \div 100

\* RiskManager.calculate_position_size with the stop loss of
\* get_stop_loss_price: the risk-based size is the whole portfolio, so the
\* result is max_allowed
calculate_position_size(portfolio_value) ==
    Min((portfolio_value * max_position_size_pct) \div 100, max_position_size_usd)

\* variant of _check_symbol that places the BUY order whatever the risk check says
check_symbol_unguarded(p, s, t, day, symbol, portfolio_value, fetched, latest_signal, current_price, venue) ==
    LET base_currency == split_base(symbol)
        risk_check == RiskManager_check_can_trade(s, t, day, portfolio_value,
                          buy_proposed_trade_usd(portfolio_value), symbol,
                          get_position_values(p, venue))
        quantity == calculate_position_size(portfolio_value) \div current_price
        bought == place_order(p, symbol, "buy", "market", quantity, NoPrice, NoPrice, venue)
        qty == get_or_zero(p.positions, base_currency)
        sold == place_order(p, symbol, "sell", "market", qty, NoPrice, NoPrice, venue)
        pnl == (qty * sold.order.filled_price
                    - qty * current_price * (PaperScale + PaperScale \div CommissionDiv))
                \div PaperScale
    IN
    IF ~fetched \/ latest_signal = 0
    THEN [paper |-> p, rm |-> s, order |-> NoOrder, risk_check |-> Result(TRUE, "none")]
    ELSE IF latest_signal = 1 /\ base_currency \notin paper_get_positions(p)
    THEN [paper |-> bought.paper, rm |-> risk_check.rm, order |-> bought.order,
          risk_check |-> risk_check.result]
    ELSE IF latest_signal = -1 /\ base_currency \in paper_get_positions(p)
    THEN [paper |-> sold.paper,
          rm |-> IF sold.order.status = "filled" THEN record_trade_result(s, pnl) ELSE s,
          order |-> sold.order, risk_check |-> Result(TRUE, "none")]
    ELSE [paper |-> p, rm |-> s, order |-> NoOrder, risk_check |-> Result(TRUE, "none")]

\* LiveTrader._check_symbol(symbol, portfolio_value): fetched, latest_signal
\* and current_price are what fetch_ohlcv and the strategy give, venue what
\* the adapter's get_price answers
check_symbol(p, s, t, day, symbol, portfolio_value, fetched, latest_signal, current_price, venue) ==
    LET base_currency == split_base(symbol)
        risk_check == RiskManager_check_can_trade(s, t, day, portfolio_value,
                          buy_proposed_trade_usd(portfolio_value), symbol,
                          get_position_values(p, venue))
        quantity == calculate_position_size(portfolio_value) \div current_price
        bought == place_order(p, symbol, "buy", "market", quantity, NoPrice, NoPrice, venue)
        qty == get_or_zero(p.positions, base_currency)
        sold == place_order(p, symbol, "sell", "market", qty, NoPrice, NoPrice, venue)
        pnl == (qty * sold.order.filled_price
                    - qty * current_price * (PaperScale + PaperScale \div CommissionDiv))
                \div PaperScale
    IN
    IF ~fetched \/ latest_signal = 0
    THEN [paper |-> p, rm |-> s, order |-> NoOrder, risk_check |-> Result(TRUE, "none")]
    ELSE IF latest_signal = 1 /\ base_currency \notin paper_get_positions(p)
    THEN IF ~risk_check.result.allowed
         THEN [paper |-> p, rm |-> risk_check.rm, order |-> NoOrder,
               risk_check |-> risk_check.result]
         ELSE [paper |-> bought.paper, rm |-> risk_check.rm, order |-> bought.order,
               risk_check |-> risk_check.result]
    ELSE IF latest_signal = -1 /\ base_currency \in paper_get_positions(p)
    THEN [paper |-> sold.paper,
          rm |-> IF sold.order.status = "filled" THEN record_trade_result(s, pnl) ELSE s,
          order |-> sold.order, risk_check |-> Result(TRUE, "none")]
    ELSE [paper |-> p, rm |-> s, order |-> NoOrder, risk_check |-> Result(TRUE, "none")]

(* Inputs of the spot trading loop *)

\* the tick sent no BUY order
NoBuy == [proposed_trade_usd |-> 0, current_price |-> 0]

TickPrices == {200, 800}
TickAnswers == TickPrices \cup {PriceUnavailable}
Signals == {-1, 0, 1}

\* datetime.utcnow().strftime("%Y-%m-%d") at time t of the loop's clock
day_of(t) == 1 + t \div (TicksPerDay * TimeStep)

\* the loop sleeps between two ticks
TickClock ==
    /\ now + TimeStep <= MaxSchedTicks * TimeStep
    /\ now' = now + TimeStep
    /\ today' = day_of(now')

\* LiveTrader._trading_tick with symbols = [PaperSymbol]
SpotTradingTick ==
    /\ variant = "spot"
    /\ paper.id_counter < MaxOrders
    /\ TickClock
    /\ \E fetched \in BOOLEAN, latest_signal \in Signals, current_price \in TickPrices,
          venue \in TickAnswers :
          \E portfolio_value \in {paper_get_portfolio_value(paper, venue) \div PaperScale} :
          \E s1 \in {RiskManager_reset_daily(update_peak(rm, portfolio_value), today,
                                             portfolio_value)} :
          \E out \in {check_symbol(paper, s1, now, today, PaperSymbol, portfolio_value,
                                   fetched, latest_signal, current_price, venue)} :
             /\ paper' = out.paper
             /\ rm' = out.rm
             /\ ret' = [op |-> "trading_tick",
                        breaker |-> cooldown_running(rm, now)
                                    \/ cooldown_running(out.rm, now),
                        latest_signal |-> latest_signal,
                        order |-> out.order, risk_check |-> out.risk_check,
                        buy |-> IF out.order # NoOrder /\ out.order.side = "buy"
                                THEN [proposed_trade_usd |->
                                          buy_proposed_trade_usd(portfolio_value),
                                      current_price |-> current_price]
                                ELSE NoBuy]
    /\ UNCHANGED <<variant, owed, loss_trip_until, limit_trip_until, deribit, concVars, trader,
                 entryVars>>

-----------------------------------------------------------------------------
(* OptionsTrader: the options trading loop over the DeribitOptionsAdapter   *)
(* and one of the four registered strategies.  The risk manager is given    *)
(* whole USD (rounded down).                                                *)

\* get_premium_at_risk(), in whole USD
get_premium_at_risk(a) ==
    LET long == {pid \in DOMAIN a.positions : a.positions[pid].side = "buy"}
    IN SumOver([pid \in long |->
                   (a.positions[pid].entry_price_usd * a.positions[pid].quantity)
                       \div QtyScale], long)

\* what OptionsRiskManager.check_can_trade reads from the adapter
adapter_view(a, underlying) ==
    AdapterView(get_portfolio_value(a) \div CashScale,
                Cardinality(DOMAIN a.positions),
                Cardinality({pid \in DOMAIN a.positions :
                                a.positions[pid].underlying = underlying}),
                get_premium_at_risk(a))

\* round(x / y, 0) for positive operands
round_div(x, y) == (2 * x + y) \div (2 * y)

NoActions == <<>>

\* the strategy's risk_check and the action it returns when allowed
gated(risk_check, action) ==
    [rm |-> risk_check.rm,
     actions |-> IF risk_check.result.allowed THEN <<action>> ELSE NoActions,
     risk_check |-> risk_check.result]

\* evaluate returns before it asks the risk manager
skipped(s) == [rm |-> s, actions |-> NoActions, risk_check |-> Result(TRUE, "none")]

\* MomentumOptionsStrategy.evaluate(underlying)
MomentumOptions_evaluate(a, s, t, day, underlying, signal, found, est_cost) ==
    LET existing == {pid \in DOMAIN a.positions : a.positions[pid].underlying = underlying}
        portfolio_value == get_portfolio_value(a) \div CashScale
        quantity == Max(round_div(portfolio_value * momentum_size_pct, est_cost),
                        QtyScale \div 10)
        risk_check == OptionsRiskManager_check_can_trade(s, t, day,
                          adapter_view(a, underlying),
                          (est_cost * quantity) \div QtyScale, "buy", underlying)
    IN IF signal = 0 \/ existing # {} \/ ~found \/ est_cost <= 0 THEN skipped(s)
       ELSE gated(risk_check,
                  [type |-> IF signal = 1 THEN "buy_call" ELSE "buy_put",
                   quantity |-> quantity, is_hedge |-> FALSE])

\* MomentumOptionsStrategy.manage_positions: the decision for one position;
\* due: pos.dte < 5
MomentumOptions_manage(pos, due) ==
    IF pos.side = "buy"
       /\ (pnl_pct_at_least(pos, profit_target_pct) \/ pnl_pct_at_most(pos, -stop_loss_pct) \/ due)
    THEN <<[type |-> "close", position_id |-> pos.id]>>
    ELSE NoActions

\* a leg_group of a straddle or a strangle
is_vol_group(leg_group) == leg_group[1] \in {"straddle", "strangle"}

\* VolMeanReversionStrategy.evaluate(underlying); signal: 1 when iv_rank is
\* above high_iv_threshold, -1 when below low_iv_threshold, else 0
VolMeanReversion_evaluate(a, s, t, day, underlying, signal) ==
    LET existing == {pid \in DOMAIN a.positions :
                        /\ a.positions[pid].underlying = underlying
                        /\ is_vol_group(a.positions[pid].leg_group)}
        portfolio_value == get_portfolio_value(a) \div CashScale
        budget == (portfolio_value * vol_size_pct) \div 100
        risk_check(side) == OptionsRiskManager_check_can_trade(s, t, day,
                                adapter_view(a, underlying), budget, side, underlying)
    IN IF existing # {} \/ signal = 0 THEN skipped(s)
       ELSE IF signal = 1
       THEN gated(risk_check("sell"),
                  [type |-> "sell_strangle", quantity |-> OneContract, is_hedge |-> FALSE])
       ELSE gated(risk_check("buy"),
                  [type |-> "buy_straddle", quantity |-> OneContract, is_hedge |-> FALSE])

\* VolMeanReversionStrategy.manage_positions: the decision for one position;
\* due: pos.dte < 7
VolMeanReversion_manage(pos, due) ==
    IF ~is_vol_group(pos.leg_group) THEN NoActions
    ELSE IF \/ pos.side = "sell" /\ pnl_pct_at_least(pos, 50)
            \/ pos.side = "buy" /\ pnl_pct_at_least(pos, exit_iv_reversion_pct)
            \/ pnl_pct_at_most(pos, -30)
            \/ due
    THEN <<[type |-> "close_group", leg_group |-> pos.leg_group]>>
    ELSE NoActions

\* quantity that covers the spot holding
holding_quantity(spot) == Max((spot_holding_usd * QtyScale) \div spot, 1)

\* OptionsRiskManager.check_hedge_budget(cost_usd, portfolio_value) within
\* the month of the first call
check_hedge_budget(spend, cost_usd, portfolio_value) ==
    (spend + cost_usd) * 100 <= max_monthly_hedge_cost_pct * portfolio_value

\* ProtectivePutsStrategy.evaluate(underlying)
ProtectivePuts_evaluate(a, s, t, day, spend, underlying, spot, found, est_cost) ==
    LET existing == {pid \in DOMAIN a.positions :
                        /\ a.positions[pid].underlying = underlying
                        /\ a.positions[pid].option_type = "put"
                        /\ a.positions[pid].side = "buy"}
        quantity == holding_quantity(spot)
        total_cost == (est_cost * quantity) \div QtyScale
        portfolio_value == get_portfolio_value(a) \div CashScale
        risk_check == OptionsRiskManager_check_can_trade(s, t, day,
                          adapter_view(a, underlying), total_cost, "buy", underlying)
    IN IF existing # {} \/ ~found \/ est_cost <= 0 THEN skipped(s)
       ELSE IF ~check_hedge_budget(spend, total_cost, portfolio_value) THEN skipped(s)
       ELSE gated(risk_check,
                  [type |-> "buy_put", quantity |-> quantity, is_hedge |-> TRUE])

\* ProtectivePutsStrategy.manage_positions: one position; due: pos.dte < roll_dte
ProtectivePuts_manage(pos, due) ==
    IF pos.option_type = "put" /\ pos.side = "buy" /\ due
    THEN <<[type |-> "roll", position_id |-> pos.id]>>
    ELSE NoActions

\* CoveredCallsStrategy.evaluate(underlying)
CoveredCalls_evaluate(a, s, t, day, underlying, spot, found, est_premium) ==
    LET existing == {pid \in DOMAIN a.positions :
                        /\ a.positions[pid].underlying = underlying
                        /\ a.positions[pid].option_type = "call"
                        /\ a.positions[pid].side = "sell"}
        quantity == holding_quantity(spot)
        risk_check == OptionsRiskManager_check_can_trade(s, t, day,
                          adapter_view(a, underlying),
                          (est_premium * quantity) \div QtyScale, "sell", underlying)
    IN IF existing # {} \/ ~found \/ est_premium <= 0 THEN skipped(s)
       ELSE gated(risk_check,
                  [type |-> "sell_call", quantity |-> quantity, is_hedge |-> FALSE])

\* CoveredCallsStrategy.manage_positions: one position; due: the spot is
\* within itm_roll_threshold_pct of the strike, or pos.dte < roll_dte
CoveredCalls_manage(pos, due) ==
    IF pos.option_type = "call" /\ pos.side = "sell" /\ due
    THEN <<[type |-> "roll", position_id |-> pos.id]>>
    ELSE NoActions

\* the key manage_positions of VolMeanReversionStrategy deduplicates by
action_key(action) ==
    IF action.type = "close_group" THEN action.leg_group ELSE <<"", action.position_id>>

\* strategy.manage_positions(underlying): the positions in the order of the
\* dict, one decision each, without a second action for the same key
RECURSIVE manage_positions(_, _, _, _, _, _)
manage_positions(name, a, underlying, due, ids, acc) ==
    IF ids = {} THEN acc
    ELSE LET pid == CHOOSE i \in ids : \A j \in ids : i <= j
             pos == a.positions[pid]
             one == IF pos.underlying # underlying THEN NoActions
                    ELSE CASE name = "momentum_options" -> MomentumOptions_manage(pos, pid \in due)
                           [] name = "vol_mean_reversion" -> VolMeanReversion_manage(pos, pid \in due)
                           [] name = "protective_puts" -> ProtectivePuts_manage(pos, pid \in due)
                           [] name = "covered_calls" -> CoveredCalls_manage(pos, pid \in due)
             seen == {action_key(acc[i]) : i \in 1..Len(acc)}
             fresh == IF one # NoActions /\ action_key(one[1]) \in seen
                      THEN NoActions ELSE one
         IN manage_positions(name, a, underlying, due, ids \ {pid}, acc \o fresh)

\* strategy.evaluate(underlying)
evaluate(name, a, s, t, day, spend, underlying, signal, spot, found, est_cost) ==
    CASE name = "momentum_options" ->
            MomentumOptions_evaluate(a, s, t, day, underlying, signal, found, est_cost)
      [] name = "vol_mean_reversion" ->
            VolMeanReversion_evaluate(a, s, t, day, underlying, signal)
      [] name = "protective_puts" ->
            ProtectivePuts_evaluate(a, s, t, day, spend, underlying, spot, found, est_cost)
      [] name = "covered_calls" ->
            CoveredCalls_evaluate(a, s, t, day, underlying, spot, found, est_cost)

\* the closing actions are left for later, the opening actions are executed
execute_action_defers_close(st, action, underlying, found, quotes, venue) ==
    LET a == st.adapter
        option_type == IF action.type \in {"buy_call", "sell_call"} THEN "call" ELSE "put"
        bought == buy_option(a, Contract(underlying, option_type), action.quantity,
                             NoGroup, quotes[1])
        sold == sell_option(a, Contract(underlying, option_type), action.quantity,
                            NoGroup, quotes[1])
    IN CASE action.type \in {"buy_call", "buy_put"} ->
              [st EXCEPT !.adapter = bought.adapter,
                         !.spend = IF bought.pos # NoPosition /\ action.is_hedge
                                   THEN @ + (bought.pos.entry_price_usd * bought.pos.quantity)
                                                \div QtyScale
                                   ELSE @]
         [] action.type \in {"sell_call", "sell_put"} ->
              [st EXCEPT !.adapter = sold.adapter]
         [] action.type \in {"close", "roll", "close_group"} -> st
         [] action.type = "buy_straddle" ->
              [st EXCEPT !.adapter = open_straddle(a, underlying, "buy", action.quantity,
                                                   found, quotes).adapter]
         [] action.type = "sell_strangle" ->
              [st EXCEPT !.adapter = open_strangle(a, underlying, "sell", action.quantity,
                                                   found, quotes).adapter]

\* OptionsTrader._execute_action(action, underlying) on the trader's state
\* st = [adapter, rm, spend]; found and quotes are what the adapter finds
\* and is quoted when it fills, venue what it is answered when it closes
execute_action(st, action, underlying, found, quotes, venue) ==
    LET a == st.adapter
        option_type == IF action.type \in {"buy_call", "sell_call"} THEN "call" ELSE "put"
        bought == buy_option(a, Contract(underlying, option_type), action.quantity,
                             NoGroup, quotes[1])
        sold == sell_option(a, Contract(underlying, option_type), action.quantity,
                            NoGroup, quotes[1])
        closed == close_position(a, action.position_id, venue[action.position_id])
        group == close_leg_group(a, action.leg_group, venue)
    IN CASE action.type \in {"buy_call", "buy_put"} ->
              [st EXCEPT !.adapter = bought.adapter,
                         !.spend = IF bought.pos # NoPosition /\ action.is_hedge
                                   THEN @ + (bought.pos.entry_price_usd * bought.pos.quantity)
                                                \div QtyScale
                                   ELSE @]
         [] action.type \in {"sell_call", "sell_put"} ->
              [st EXCEPT !.adapter = sold.adapter]
         [] action.type \in {"close", "roll"} ->
              IF action.position_id \notin DOMAIN a.positions THEN st
              ELSE [st EXCEPT !.adapter = closed.adapter,
                              !.rm = IF closed.closed
                                     THEN record_trade_result(@, closed.pnl_usd) ELSE @]
         [] action.type = "close_group" ->
              [st EXCEPT !.adapter = group.adapter,
                         !.rm = record_trade_result(@, group.pnl_usd)]
         [] action.type = "buy_straddle" ->
              [st EXCEPT !.adapter = open_straddle(a, underlying, "buy", action.quantity,
                                                   found, quotes).adapter]
         [] action.type = "sell_strangle" ->
              [st EXCEPT !.adapter = open_strangle(a, underlying, "sell", action.quantity,
                                                   found, quotes).adapter]

\* `for action in actions: self._execute_action(action, underlying)`
RECURSIVE execute_actions(_, _, _, _, _, _, _)
execute_actions(st, actions, i, underlying, found, quotes, venue) ==
    IF i > Len(actions) THEN st
    ELSE execute_actions(execute_action(st, actions[i], underlying, found, quotes, venue),
                         actions, i + 1, underlying, found, quotes, venue)

\* the positions a list of management actions closes
closing(a, actions) ==
    UNION {IF actions[i].type = "close_group" THEN ids_in_group(a, actions[i].leg_group)
           ELSE {actions[i].position_id} : i \in 1..Len(actions)}

(* Inputs of the options trading loop *)

OptionsStrategies ==
    {"momentum_options", "vol_mean_reversion", "protective_puts", "covered_calls"}
Marks == {PriceUnavailable, 500, 1500}
TickCloseAnswers == {PriceUnavailable, 500}
Spots == {50000}
\* no position has expired, all have expired worthless, all are exercised
Expiries == {"none", "worthless", "exercised"}

\* what the venue gives in one tick: the signal (momentum, or the side of the
\* IV rank), whether find_options finds contracts, the price evaluate sees
\* and the prices the legs are filled at
Market(signal, found, est_cost, quotes) ==
    [signal |-> signal, found |-> found, est_cost |-> est_cost, quotes |-> quotes]
Markets ==
    {Market(0, TRUE, 1000, <<1000, 1000>>),
     Market(1, TRUE, 1000, <<1000, 1000>>),
     Market(-1, TRUE, 1000, <<1000, 1000>>),
     Market(1, FALSE, 1000, <<1000, 1000>>),
     Market(1, TRUE, 0, <<1000, 1000>>),
     Market(-1, TRUE, 1000, <<1000, 0>>),
     Market(1, TRUE, 1000, <<0, 0>>)}
\* and a venue whose ask, at which an order is filled, can also be above the
\* mid price evaluate sees
WideMarkets == Markets \cup {Market(0, TRUE, 1500, <<2500, 2500>>)}

\* LiveTrader's and OptionsTrader's __init__ give the adapter and the risk
\* manager the same initial capital
OptionsTraderRisk == LiveTraderRisk

\* OptionsTrader._trading_tick with underlyings = ["BTC"]: handle_expiries,
\* update_positions, update_peak and reset_daily, then _process_underlying:
\* the management actions are executed, then evaluate is called and the
\* actions it returns are executed
OptionsTradingTickIn(markets) ==
    /\ variant = "options"
    /\ deribit.order_counter + 2 <= MaxSchedOrders
    /\ TickClock
    /\ \E expiry \in IF DOMAIN deribit.positions = {} THEN {"none"} ELSE Expiries,
          mark \in IF DOMAIN deribit.positions = {} THEN {PriceUnavailable} ELSE Marks :
       \E a1 \in {handle_expiries(deribit,
                     IF expiry = "none" THEN {} ELSE DOMAIN deribit.positions,
                     [pid \in DOMAIN deribit.positions |->
                         IF expiry = "exercised" THEN Intrinsic ELSE 0])} :
       \E a2 \in {update_positions(a1, [pid \in DOMAIN a1.positions |-> mark])} :
       \E portfolio_value \in {get_portfolio_value(a2) \div CashScale} :
       \E s1 \in {OptionsRiskManager_reset_daily(update_peak(rm, portfolio_value),
                                                 today, portfolio_value)} :
       \E due \in IF DOMAIN a2.positions = {} THEN {{}} ELSE {{}, DOMAIN a2.positions},
          spot \in Spots, market \in markets :
       \E mgmt_actions \in {manage_positions(trader.strategy_name, a2, "BTC", due,
                                             DOMAIN a2.positions, NoActions)} :
       \E answer \in IF closing(a2, mgmt_actions) = {}
                     THEN {PriceUnavailable} ELSE TickCloseAnswers :
       \E managed \in {execute_actions(
                          [adapter |-> a2, rm |-> s1, spend |-> trader.monthly_hedge_spend],
                          mgmt_actions, 1, "BTC", market.found, market.quotes,
                          [pid \in DOMAIN a2.positions |-> answer])} :
       \E decision \in {evaluate(trader.strategy_name, managed.adapter, managed.rm,
                                 now, today, managed.spend, "BTC", market.signal, spot,
                                 market.found, market.est_cost)} :
       \E done \in {execute_actions([managed EXCEPT !.rm = decision.rm],
                                    decision.actions, 1, "BTC", market.found,
                                    market.quotes,
                                    [pid \in DOMAIN a2.positions |-> answer])} :
          /\ deribit' = done.adapter
          /\ rm' = done.rm
          /\ trader' = [trader EXCEPT !.monthly_hedge_spend = done.spend]
          /\ ret' = [op |-> "options_tick",
                     breaker |-> cooldown_running(rm, now)
                                 \/ cooldown_running(decision.rm, now),
                     expired |-> DOMAIN deribit.positions \ DOMAIN a1.positions,
                     manage_saw |-> DOMAIN a2.positions,
                     closing |-> closing(a2, mgmt_actions),
                     answer |-> answer,
                     evaluate_saw |-> DOMAIN managed.adapter.positions,
                     trade_actions |-> decision.actions,
                     risk_check |-> decision.risk_check]
    /\ UNCHANGED <<variant, owed, loss_trip_until, limit_trip_until, paper, concVars, entryVars>>

OptionsTradingTick == OptionsTradingTickIn(Markets)

\* a tick of the first MaxHedgeTicks, on the venue with the wider quotes
HedgeTradingTick ==
    /\ now + TimeStep <= MaxHedgeTicks * TimeStep
    /\ OptionsTradingTickIn(WideMarkets)

(* The strategies' calls as their caller sees them: the market data of the    *)
(* venue can fail                                                             *)

\* the three fetch_ticker calls of get_spot_price, TRUE when the venue answers
Tickers == [1..3 -> BOOLEAN]

\* DeribitOptionsAdapter.get_spot_price raises: no cached price within the
\* TTL, and the two guarded fetch_ticker calls and the third, which no try
\* guards, all fail
get_spot_price_raises(cached, tickers) == ~cached /\ \A i \in 1..3 : ~tickers[i]

\* strategy.evaluate(underlying) reaches a market-data call of the adapter:
\* get_iv_rank at once, find_options after the momentum signal and the test
\* of the existing positions, get_spot_price after that test
evaluate_fetches(name, a, underlying, signal) ==
    LET mine == {pid \in DOMAIN a.positions : a.positions[pid].underlying = underlying}
    IN CASE name = "momentum_options" -> signal # 0 /\ mine = {}
         [] name = "vol_mean_reversion" -> TRUE
         [] name = "protective_puts" ->
               ~\E pid \in mine : /\ a.positions[pid].option_type = "put"
                                  /\ a.positions[pid].side = "buy"
         [] name = "covered_calls" ->
               ~\E pid \in mine : /\ a.positions[pid].option_type = "call"
                                  /\ a.positions[pid].side = "sell"

\* CoveredCallsStrategy.manage_positions asks get_spot_price for a short call
\* whose current_spot is 0; the other strategies read the book only
manage_fetches(name, a, underlying, spot_known) ==
    /\ name = "covered_calls"
    /\ ~spot_known
    /\ \E pid \in DOMAIN a.positions : /\ a.positions[pid].underlying = underlying
                                       /\ a.positions[pid].option_type = "call"
                                       /\ a.positions[pid].side = "sell"

\* the list a strategy returns: every action with its reason, and a single
\* `none` intent where evaluate has nothing to do
intents(actions, or_none) ==
    IF actions = NoActions /\ or_none THEN <<[type |-> "none", reason |-> "reason"]>>
    ELSE [i \in 1..Len(actions) |-> [type |-> actions[i].type, reason |-> "reason"]]

\* a call of strategy.evaluate or strategy.manage_positions on the book of
\* the trader, with the venue's market data of this moment
StrategyCall ==
    /\ variant = "options"
    /\ \E method \in {"evaluate", "manage_positions"}, spot \in Spots,
          cached \in BOOLEAN, tickers \in Tickers :
       \E market \in IF method = "evaluate" THEN Markets
                     ELSE {Market(0, TRUE, 1000, <<1000, 1000>>)},
          spot_known \in IF method = "evaluate" THEN {TRUE} ELSE BOOLEAN,
          due \in IF method = "evaluate" THEN {{}} ELSE {{}, DOMAIN deribit.positions} :
       \E fetches \in {IF method = "evaluate"
                       THEN evaluate_fetches(trader.strategy_name, deribit, "BTC",
                                             market.signal)
                       ELSE manage_fetches(trader.strategy_name, deribit, "BTC",
                                           spot_known)} :
          ret' = [op |-> method,
                  fetches |-> fetches,
                  venue_failed |-> \A i \in 1..3 : ~tickers[i],
                  raised |-> fetches /\ get_spot_price_raises(cached, tickers),
                  intents |->
                      IF fetches /\ get_spot_price_raises(cached, tickers) THEN NoActions
                      ELSE IF method = "evaluate"
                      THEN intents(evaluate(trader.strategy_name, deribit, rm, now, today,
                                            trader.monthly_hedge_spend, "BTC",
                                            market.signal, spot, market.found,
                                            market.est_cost).actions, TRUE)
                      ELSE intents(manage_positions(trader.strategy_name, deribit, "BTC",
                                                    due, DOMAIN deribit.positions,
                                                    NoActions), FALSE)]
    /\ UNCHANGED <<riskVars, nonRiskVars>>

-----------------------------------------------------------------------------
(* check_options: the stateless runner an external driver calls with the     *)
(* option positions it holds.  Scores are in hundredths, deltas in           *)
(* hundredths, premiums in thousandths of the spot price.                    *)

CheckVariants == {"check_options", "shared_scripts", "scripts"}

\* MAX_POSITIONS_PER_STRATEGY of src/check_options.py, and of the two others
MAX_POSITIONS_PER_STRATEGY(v) == IF v = "check_options" THEN 2 ELSE 4
MIN_SCORE_THRESHOLD == 30

\* STRATEGY_MAP
STRATEGY_MAP(v) ==
    {"momentum_options", "vol_mean_reversion", "protective_puts", "covered_calls"}
    \cup (IF v = "check_options" THEN {} ELSE {"wheel", "butterfly"})

Abs(x) == IF x >= 0 THEN x ELSE -x

\* round(spot_price * pct, -2), and the listed strike nearest to the target
round_strike(x) == ((x + 50) \div 100) * 100

\* one proposed leg: _option_leg / _build_action
option_leg(action, option_type, strike_pct, expiry, delta, premium, spot_price) ==
    [action |-> action, option_type |-> option_type,
     strike |-> round_strike((spot_price * strike_pct) \div 100),
     expiry |-> expiry, delta |-> delta,
     premium_usd |-> (spot_price * premium) \div 1000]

\* score_new_trade(proposed_action, existing_positions, spot_price)
score_new_trade(proposed_action, existing_positions, spot_price) ==
    IF existing_positions = <<>> THEN 100
    ELSE LET idx == 1..Len(existing_positions)
             same_type == {i \in idx : existing_positions[i].option_type
                                          = proposed_action.option_type}
             dists == {Abs(proposed_action.strike - existing_positions[i].strike) :
                          i \in same_type}
             min_dist == CHOOSE d \in dists : \A e \in dists : d <= e
             strike_score == IF same_type = {} THEN 0
                             ELSE IF 10 * min_dist > spot_price THEN 40
                             ELSE IF 20 * min_dist > spot_price THEN 20
                             ELSE -30
             expiry_score == IF \A i \in idx : existing_positions[i].expiry
                                                  # proposed_action.expiry
                             THEN 30 ELSE -10
             net_delta == SumOver([i \in idx |-> existing_positions[i].delta], idx)
             new_net == net_delta + proposed_action.delta
             delta_score == IF Abs(new_net) > Abs(net_delta) /\ Abs(new_net) > 50 THEN -30
                            ELSE IF Abs(new_net) < Abs(net_delta) THEN 20
                            ELSE 0
             sell_positions == {i \in idx : existing_positions[i].action = "sell"}
             premium_score ==
                 IF /\ proposed_action.action = "sell"
                    /\ sell_positions # {}
                    /\ 10 * proposed_action.premium_usd * Cardinality(sell_positions)
                         > 11 * SumOver([i \in sell_positions |->
                                            existing_positions[i].premium_usd],
                                        sell_positions)
                 THEN 10 ELSE 0
         IN 50 + strike_score + expiry_score + delta_score + premium_score

\* what an evaluator returns
Evaluated(signal, actions) == [signal |-> signal, actions |-> actions]

\* has an existing option position of that type and side
holds(existing_positions, option_type, action) ==
    \E i \in 1..Len(existing_positions) :
       /\ existing_positions[i].option_type = option_type
       /\ existing_positions[i].action = action

\* evaluate_momentum_options: roc is the signal of the rate of change
evaluate_momentum_options(roc, spot_price, expiry) ==
    IF roc = 1
    THEN Evaluated(1, <<option_leg("buy", "call", 102, expiry, 45, 45, spot_price)>>)
    ELSE IF roc = -1
    THEN Evaluated(-1, <<option_leg("buy", "put", 98, expiry, -40, 40, spot_price)>>)
    ELSE Evaluated(0, <<>>)

\* evaluate_vol_mean_reversion
evaluate_vol_mean_reversion(iv_rank, spot_price, expiry) ==
    IF iv_rank > 75
    THEN Evaluated(-1, <<option_leg("sell", "call", 110, expiry, 20, 25, spot_price),
                         option_leg("sell", "put", 90, expiry, -18, 20, spot_price)>>)
    ELSE IF iv_rank < 25
    THEN Evaluated(1, <<option_leg("buy", "call", 100, expiry, 50, 40, spot_price),
                        option_leg("buy", "put", 100, expiry, -50, 40, spot_price)>>)
    ELSE Evaluated(0, <<>>)

\* evaluate_protective_puts; src/check_options.py does not look at the
\* existing positions
evaluate_protective_puts(v, existing_positions, spot_price, expiry) ==
    IF v # "check_options" /\ holds(existing_positions, "put", "buy")
    THEN Evaluated(0, <<>>)
    ELSE Evaluated(1, <<option_leg("buy", "put", 88, expiry, -15, 15, spot_price)>>)

\* evaluate_covered_calls
evaluate_covered_calls(v, existing_positions, spot_price, expiry) ==
    IF v # "check_options" /\ holds(existing_positions, "call", "sell")
    THEN Evaluated(0, <<>>)
    ELSE Evaluated(-1, <<option_leg("sell", "call", 112, expiry, 18, 20, spot_price)>>)

\* evaluate_wheel; has_assigned_spot: the driver holds the underlying
evaluate_wheel(existing_positions, has_assigned_spot, spot_price, expiry) ==
    IF has_assigned_spot
    THEN IF holds(existing_positions, "call", "sell") THEN Evaluated(0, <<>>)
         ELSE Evaluated(-1, <<option_leg("sell", "call", 110, expiry, 20, 20, spot_price)>>)
    ELSE IF holds(existing_positions, "put", "sell") THEN Evaluated(0, <<>>)
         ELSE Evaluated(-1, <<option_leg("sell", "put", 94, expiry, -25, 20, spot_price)>>)

\* evaluate_butterfly
evaluate_butterfly(iv_rank, spot_price, expiry) ==
    IF iv_rank < 30 \/ iv_rank > 70 THEN Evaluated(0, <<>>)
    ELSE Evaluated(1, <<option_leg("buy", "call", 95, expiry, 70, 55, spot_price),
                        option_leg("sell", "call", 100, expiry, 50, 35, spot_price),
                        option_leg("buy", "call", 105, expiry, 30, 15, spot_price)>>)

\* STRATEGY_MAP[strategy_name](...)
evaluate_fn(v, strategy_name, existing_positions, has_assigned_spot, roc, iv_rank, spot_price, expiry) ==
    CASE strategy_name = "momentum_options" ->
            evaluate_momentum_options(roc, spot_price, expiry)
      [] strategy_name = "vol_mean_reversion" ->
            evaluate_vol_mean_reversion(iv_rank, spot_price, expiry)
      [] strategy_name = "protective_puts" ->
            evaluate_protective_puts(v, existing_positions, spot_price, expiry)
      [] strategy_name = "covered_calls" ->
            evaluate_covered_calls(v, existing_positions, spot_price, expiry)
      [] strategy_name = "wheel" ->
            evaluate_wheel(existing_positions, has_assigned_spot, spot_price, expiry)
      [] strategy_name = "butterfly" ->
            evaluate_butterfly(iv_rank, spot_price, expiry)

\* the JSON record main prints
Output(signal, actions, note, cap) ==
    [signal |-> signal, actions |-> actions, note |-> note, cap |-> cap]

\* every proposed action is kept, whatever its score
scored_actions_keeps_all(actions, i, existing_positions, spot_price) == actions

\* the actions whose score reaches MIN_SCORE_THRESHOLD, in their order
RECURSIVE scored_actions(_, _, _, _)
scored_actions(actions, i, existing_positions, spot_price) ==
    IF i > Len(actions) THEN <<>>
    ELSE (IF score_new_trade(actions[i], existing_positions, spot_price)
                >= MIN_SCORE_THRESHOLD
          THEN <<actions[i]>> ELSE <<>>)
         \o scored_actions(actions, i + 1, existing_positions, spot_price)

\* main() of the check_options variant v, called with existing_positions
main(v, strategy_name, existing_positions, has_assigned_spot, roc, iv_rank, spot_price, expiry) ==
    LET evaluated == evaluate_fn(v, strategy_name, existing_positions, has_assigned_spot,
                                 roc, iv_rank, spot_price, expiry)
        kept == scored_actions(evaluated.actions, 1, existing_positions, spot_price)
    IN IF Len(existing_positions) >= MAX_POSITIONS_PER_STRATEGY(v)
       THEN Output(0, <<>>, "skip_reason", MAX_POSITIONS_PER_STRATEGY(v))
       ELSE IF strategy_name \notin STRATEGY_MAP(v) THEN Output(0, <<>>, "error", 0)
       ELSE IF spot_price <= 0 THEN Output(0, <<>>, "error", 0)
       ELSE Output(IF evaluated.actions # <<>> /\ kept = <<>> THEN 0 ELSE evaluated.signal,
                   kept, "none", 0)

(* Inputs of the runner *)

RunnerStrategies ==
    {"momentum_options", "vol_mean_reversion", "protective_puts", "covered_calls",
     "wheel", "butterfly"}
RunnerSpots == {0, 10000, 12000}
RunnerExpiries == {1, 2}
IvRanks == {20, 50, 80}

\* one invocation by the driver, which opens every action of the output and
\* passes the positions it then holds to the next invocation
CheckOptions ==
    /\ runner.runs < MaxRuns
    /\ \E has_assigned_spot \in BOOLEAN, roc \in Signals, iv_rank \in IvRanks,
          spot_price \in RunnerSpots, expiry \in RunnerExpiries :
          \E out \in {main(runner.variant, runner.strategy_name, runner.existing_positions,
                           has_assigned_spot, roc, iv_rank, spot_price, expiry)} :
             runner' = [runner EXCEPT !.runs = @ + 1,
                                      !.given = Len(runner.existing_positions),
                                      !.out = out,
                                      !.existing_positions = @ \o out.actions]
    /\ UNCHANGED <<riskVars, ret, paper, deribit, concVars, trader, launch, loop, fetch>>

(* The runners as processes: the arguments they are started with, what they  *)
(* print on stdout and the status they exit with                             *)

\* the positions JSON on one channel (argv or stdin): not given, text that
\* json.loads rejects, JSON that is not a list, or a list of positions
PositionsArg(kind, value) == [kind |-> kind, value |-> value]
NoPositionsArg == PositionsArg("absent", <<>>)

\* main()'s choice of the channel: argv when it has a positions argument;
\* stdin only without one, and never in src/check_options.py
positions_channel(v, argv, stdin) ==
    IF argv.kind # "absent" THEN "argv"
    ELSE IF v # "check_options" /\ stdin.kind # "absent" THEN "stdin"
    ELSE "none"

\* the positions main() goes on with; text json.loads rejects leaves the
\* empty list
raw_positions(v, argv, stdin) ==
    LET channel == positions_channel(v, argv, stdin)
        chosen == IF channel = "argv" THEN argv
                  ELSE IF channel = "stdin" THEN stdin ELSE NoPositionsArg
    IN [chosen EXCEPT !.value = IF chosen.kind = "list" THEN @ ELSE <<>>]

\* how a process ends: the records it has printed on stdout, whether the
\* record has an `error` field, and the exit status
Ended(records, error, exit) == [records |-> records, error |-> error, exit |-> exit]

\* the except clause of main(): src/check_options.py exits with 0
except_exit(v) == IF v = "check_options" THEN 0 ELSE 1

\* the check_options process: usage error, a positions JSON that is not a
\* list (the TypeError is outside the try), the early returns, the except
\* clause (raises: a call inside the try raises), the normal end
check_options_process(v, argc_ok, positions, strategy_name, out, raises) ==
    IF ~argc_ok THEN Ended(1, TRUE, 1)
    ELSE IF positions.kind = "scalar" THEN Ended(0, FALSE, 1)
    ELSE IF out.note # "none" THEN Ended(1, out.note = "error", 0)
    ELSE IF raises THEN Ended(1, TRUE, except_exit(v))
    ELSE Ended(1, FALSE, 0)

\* the check_strategy process: usage error, the except clause, no data for
\* the secondary symbol, fewer than 30 candles, the normal end
check_strategy_process(argc_ok, raises, secondary_empty, insufficient) ==
    IF ~argc_ok THEN Ended(1, TRUE, 1)
    ELSE IF raises THEN Ended(1, TRUE, 1)
    ELSE IF secondary_empty THEN Ended(1, TRUE, 1)
    ELSE IF insufficient THEN Ended(1, TRUE, 0)
    ELSE Ended(1, FALSE, 0)

(* Inputs of the processes *)

\* the books a driver can pass
PassedBooks ==
    {<<>>,
     <<option_leg("sell", "call", 110, 1, 20, 25, 10000)>>,
     <<option_leg("sell", "call", 110, 1, 20, 25, 10000),
       option_leg("sell", "put", 90, 1, -18, 20, 10000)>>}
PositionsArgs ==
    {NoPositionsArg, PositionsArg("malformed", <<>>), PositionsArg("scalar", <<>>)}
    \cup {PositionsArg("list", book) : book \in PassedBooks}

\* one run of a check_options variant: a process is started once and keeps
\* nothing of an earlier one
InvokeCheckOptions ==
    /\ ret = NoCall
    /\ \E v \in CheckVariants, strategy_name \in RunnerStrategies, argc_ok \in BOOLEAN,
          argv \in PositionsArgs, stdin \in PositionsArgs, raises \in BOOLEAN,
          iv_rank \in IvRanks, spot_price \in RunnerSpots, expiry \in RunnerExpiries :
       \E positions \in {raw_positions(v, argv, stdin)} :
       \E out \in {main(v, strategy_name, positions.value, FALSE, 1, iv_rank,
                        spot_price, expiry)} :
          ret' = [op |-> "check_options", v |-> v, argv |-> argv, stdin |-> stdin,
                  argc_ok |-> argc_ok,
                  channel |-> positions_channel(v, argv, stdin),
                  existing_positions |-> positions.value,
                  spot_price |-> spot_price,
                  proposed |-> IF out.note # "none" THEN <<>>
                               ELSE evaluate_fn(v, strategy_name, positions.value, FALSE, 1,
                                                iv_rank, spot_price, expiry).actions,
                  raises |-> raises,
                  out |-> out,
                  ended |-> check_options_process(v, argc_ok, positions, strategy_name,
                                                  out, raises)]
    /\ UNCHANGED <<riskVars, nonRiskVars>>

\* one run of check_strategy
InvokeCheckStrategy ==
    /\ ret = NoCall
    /\ \E argc_ok \in BOOLEAN, raises \in BOOLEAN, secondary_empty \in BOOLEAN,
          insufficient \in BOOLEAN :
          ret' = [op |-> "check_strategy", argc_ok |-> argc_ok, raises |-> raises,
                  ended |-> check_strategy_process(argc_ok, raises, secondary_empty,
                                                   insufficient)]
    /\ UNCHANGED <<riskVars, nonRiskVars>>

NoRunner ==
    [variant |-> "none", strategy_name |-> "none", existing_positions |-> <<>>,
     runs |-> 0, given |-> 0, out |-> Output(0, <<>>, "none", 0)]

RunnerStart == runner = NoRunner

-----------------------------------------------------------------------------
(* The programs that can reach a real venue: live_trader.py with the ccxt    *)
(* ExchangeAdapter, and check_hyperliquid.py with the Hyperliquid adapter.   *)
(* An argument or environment variable is TRUE when it was given non-empty.  *)

\* argparse's view of an option that is not on the command line
Absent == "absent"

\* ExchangeAdapter.__init__: the keys reach ccxt only outside paper mode
ExchangeAdapter_init(api_key, api_secret, paper_mode) ==
    [paper_mode |-> paper_mode, has_keys |-> api_key /\ api_secret /\ ~paper_mode]

\* ExchangeAdapter.place_order: where the order goes
place_order_target(adapter) ==
    IF adapter.paper_mode THEN "_execute_paper_order" ELSE "create_order"

\* live_trader.main: refuses --live without both keys, else builds the trader
\* with paper_mode = not args.live
LiveTrader_main(live, api_key, api_secret) ==
    IF live /\ (~api_key \/ ~api_secret)
    THEN [exit |-> 1, started |-> FALSE,
          adapter |-> ExchangeAdapter_init(FALSE, FALSE, TRUE)]
    ELSE [exit |-> 0, started |-> TRUE,
          adapter |-> ExchangeAdapter_init(api_key, api_secret, ~live)]

\* check_hyperliquid.main: --mode defaults to "live" with --execute and to
\* "paper" without
parse_mode(execute, mode_arg) ==
    IF mode_arg # Absent THEN mode_arg ELSE IF execute THEN "live" ELSE "paper"

\* HyperliquidExchangeAdapter.__init__: the Exchange client exists only with
\* HYPERLIQUID_SECRET_KEY
HyperliquidExchangeAdapter_init(secret) == [exchange |-> secret]

\* HyperliquidExchangeAdapter.market_open
market_open(adapter) == IF ~adapter.exchange THEN "RuntimeError" ELSE "market_open"

\* check_hyperliquid.run_execute
run_execute(mode, secret) ==
    IF mode # "live" THEN [exit |-> 1, sent |-> "none"]
    ELSE LET result == market_open(HyperliquidExchangeAdapter_init(secret))
         IN IF result = "RuntimeError" THEN [exit |-> 1, sent |-> "none"]
            ELSE [exit |-> 0, sent |-> result]

\* check_hyperliquid.run_signal_check reads candles and prints a signal
run_signal_check(mode, secret) == [exit |-> 0, sent |-> "none"]

Run(program, live_flag, credentials, out, simulated) ==
    [program |-> program, live_flag |-> live_flag, credentials |-> credentials,
     exit |-> out.exit, sent |-> out.sent, simulated |-> simulated,
     runs |-> launch.runs + 1,
     venue_orders |-> launch.venue_orders + IF out.sent = "none" THEN 0 ELSE 1]

ModeArgs == {Absent, "paper", "live"}

\* live_trader.py is run and its first tick has an order to place or has not
RunLiveTrader ==
    /\ launch.runs < MaxRuns
    /\ \E live \in BOOLEAN, api_key \in BOOLEAN, api_secret \in BOOLEAN, places \in BOOLEAN :
          \E t \in {LiveTrader_main(live, api_key, api_secret)} :
          \E target \in {IF t.started /\ places THEN place_order_target(t.adapter)
                         ELSE "none"} :
             launch' = Run("live_trader", live, api_key /\ api_secret,
                          [exit |-> t.exit,
                           sent |-> IF target = "create_order" THEN target ELSE "none"],
                          target = "_execute_paper_order")
    /\ UNCHANGED <<riskVars, ret, paper, deribit, concVars, trader, runner, loop, fetch>>

\* check_hyperliquid.py is run
RunCheckHyperliquid ==
    /\ launch.runs < MaxRuns
    /\ \E execute \in BOOLEAN, mode_arg \in ModeArgs, secret \in BOOLEAN :
          \E mode \in {parse_mode(execute, mode_arg)} :
             launch' = Run("check_hyperliquid", mode_arg = "live", secret,
                          IF execute THEN run_execute(mode, secret)
                          ELSE run_signal_check(mode, secret),
                          FALSE)
    /\ UNCHANGED <<riskVars, ret, paper, deribit, concVars, trader, runner, loop, fetch>>

NoEntry ==
    [program |-> "none", live_flag |-> FALSE, credentials |-> FALSE, exit |-> 0,
     sent |-> "none", simulated |-> FALSE, runs |-> 0, venue_orders |-> 0]

EntryStart == launch = NoEntry

-----------------------------------------------------------------------------
(* The control flow of OptionsTrader.start and LiveTrader.start: the while   *)
(* loop over self.running, the tick with its loop over the subjects          *)
(* (underlyings or symbols), the sleep, the except and finally clauses and   *)
(* the signal handler.  loop.at is the statement the trader is at.           *)

Subjects == 1..NumSubjects

\* start(): self.running = True, the handlers are registered, the try block
\* is entered
start(l) == [l EXCEPT !.running = TRUE, !.at = "while"]

\* `while self.running:` and, when it holds, `self.iteration += 1` and the
\* call of _trading_tick; when it does not, the loop is left for the finally
\* clause
while_test(l) ==
    IF l.running
    THEN [l EXCEPT !.iteration = @ + 1, !.at = "tick",
                   !.ticks_after_stop = @ + (IF l.stopped THEN 1 ELSE 0)]
    ELSE [l EXCEPT !.at = "finally"]

\* the venue can fail the calls _trading_tick makes outside the subjects'
\* try block: handle_expiries asks for the spot price (OptionsTrader),
\* get_portfolio_value asks for the balance outside paper mode (LiveTrader)
tick_can_raise(l) == l.kind = "options" \/ ~l.paper_mode

\* _trading_tick before its loop over the subjects
tick_head(l, raises) ==
    IF raises THEN [l EXCEPT !.at = "except", !.escaped = "tick"]
    ELSE [l EXCEPT !.at = "subjects", !.subject = 1, !.processed = {}, !.failed = {}]

\* the try block around a subject lets the exception out
process_subject_unguarded(l, raises) ==
    IF raises
    THEN [l EXCEPT !.processed = @ \cup {l.subject}, !.failed = @ \cup {l.subject},
                   !.at = "except", !.escaped = "subject"]
    ELSE [l EXCEPT !.processed = @ \cup {l.subject}, !.subject = @ + 1]

\* one turn of `for underlying in self.underlyings: try: ... except Exception`
process_subject(l, raises) ==
    [l EXCEPT !.processed = @ \cup {l.subject},
              !.failed = IF raises THEN @ \cup {l.subject} ELSE @,
              !.subject = @ + 1]

\* the end of _trading_tick (OptionsTrader prints its status line)
tick_tail(l) ==
    [l EXCEPT !.at = "after_tick",
              !.failed_ticks = @ + (IF l.failed # {} THEN 1 ELSE 0)]

\* the sleep is taken whatever self.running is
after_tick_always_sleeps(l) ==
    IF l.max_iterations > 0 /\ l.iteration >= l.max_iterations
    THEN [l EXCEPT !.at = "finally"]
    ELSE [l EXCEPT !.at = "sleep",
                   !.sleeps_after_stop = @ + (IF l.stopped THEN 1 ELSE 0)]

\* after the tick: `if max_iterations > 0 and self.iteration >= max_iterations:
\* break` and `if self.running: time.sleep(sleep_seconds)`
after_tick(l) ==
    IF l.max_iterations > 0 /\ l.iteration >= l.max_iterations
    THEN [l EXCEPT !.at = "finally"]
    ELSE IF l.running
         THEN [l EXCEPT !.at = "sleep",
                        !.sleeps_after_stop = @ + (IF l.stopped THEN 1 ELSE 0)]
         ELSE [l EXCEPT !.at = "while"]

\* time.sleep returns; a signal that arrived meanwhile has run its handler
wake(l) == [l EXCEPT !.at = "while"]

\* _handle_shutdown(signum, frame)
handle_shutdown(l) == [l EXCEPT !.running = FALSE, !.stopped = TRUE]

\* `except Exception as e:` logs or alerts, and raises again
except_clause(l) == [l EXCEPT !.fatal = TRUE, !.at = "finally"]

\* the venue can fail _shutdown: LiveTrader.get_daily_report asks
\* get_portfolio_value, which outside paper mode fetches the balance
shutdown_can_raise(l) == l.kind = "live" /\ ~l.paper_mode

\* `finally: self._shutdown()`: the final report and the risk manager's
\* status block, then start() returns or the exception goes on to the caller
shutdown(l, raises) ==
    IF raises
    THEN [l EXCEPT !.shutdowns = @ + 1, !.at = "raised"]
    ELSE [l EXCEPT !.shutdowns = @ + 1, !.reports = @ + 1, !.status_blocks = @ + 1,
                   !.at = IF l.fatal THEN "raised" ELSE "returned"]

loopFrame == <<riskVars, ret, paper, deribit, concVars, trader, runner, launch, fetch>>

Start ==
    /\ loop.at = "constructed"
    /\ loop' = start(loop)
    /\ UNCHANGED loopFrame

WhileTest ==
    /\ loop.at = "while"
    /\ loop.running => loop.iteration < MaxLoopIterations
    /\ loop' = while_test(loop)
    /\ UNCHANGED loopFrame

TickHead ==
    /\ loop.at = "tick"
    /\ \E raises \in BOOLEAN :
          /\ raises => tick_can_raise(loop)
          /\ loop' = tick_head(loop, raises)
    /\ UNCHANGED loopFrame

ProcessSubject ==
    /\ loop.at = "subjects"
    /\ loop.subject <= NumSubjects
    /\ \E raises \in BOOLEAN : loop' = process_subject(loop, raises)
    /\ UNCHANGED loopFrame

TickTail ==
    /\ loop.at = "subjects"
    /\ loop.subject > NumSubjects
    /\ loop' = tick_tail(loop)
    /\ UNCHANGED loopFrame

AfterTick ==
    /\ loop.at = "after_tick"
    /\ loop' = after_tick(loop)
    /\ UNCHANGED loopFrame

Wake ==
    /\ loop.at = "sleep"
    /\ loop' = wake(loop)
    /\ UNCHANGED loopFrame

\* SIGINT or SIGTERM arrives while start() is running
HandleShutdown ==
    /\ loop.at \notin {"constructed", "returned", "raised"}
    /\ loop.running
    /\ loop' = [handle_shutdown(loop) EXCEPT !.stopped_at = loop.at]
    /\ UNCHANGED loopFrame

ExceptClause ==
    /\ loop.at = "except"
    /\ loop' = except_clause(loop)
    /\ UNCHANGED loopFrame

Shutdown ==
    /\ loop.at = "finally"
    /\ \E raises \in BOOLEAN :
          /\ raises => shutdown_can_raise(loop)
          /\ loop' = shutdown(loop, raises)
    /\ UNCHANGED loopFrame

\* a trader as its constructor leaves it
Constructed(kind, paper_mode, max_iterations) ==
    [kind |-> kind, paper_mode |-> paper_mode, max_iterations |-> max_iterations,
     at |-> "constructed", running |-> FALSE, iteration |-> 0,
     subject |-> 1, processed |-> {}, failed |-> {}, failed_ticks |-> 0,
     escaped |-> "none", fatal |-> FALSE,
     shutdowns |-> 0, reports |-> 0, status_blocks |-> 0,
     stopped |-> FALSE, stopped_at |-> "none",
     ticks_after_stop |-> 0, sleeps_after_stop |-> 0]

NoLoop == Constructed("none", TRUE, 0)

LoopStart == loop = NoLoop

-----------------------------------------------------------------------------
(* The contracts of a strangle.  Strikes are in percent of the spot price,   *)
(* which is 100; a listed contract is a strike and its days to expiry.       *)

Listed(strike, dte) == [strike |-> strike, dte |-> dte]

\* otm_pct: float = 0.05, the default of open_strangle, in percent
otm_pct_default == 5

\* the otm_pct of the runner's strangle
otm_pct_ten == 10

\* target_dte of vol_mean_reversion
vol_target_dte == 30

\* find_options(underlying, option_type, min_dte, max_dte, "OTM", max_results)
\* on the listed contracts of the type: those inside the DTE window and out
\* of the money, the max_results nearest to the spot
find_otm(listed, option_type, min_dte, max_dte, max_results) ==
    LET otm == {c \in listed : /\ c.dte >= min_dte /\ c.dte <= max_dte
                               /\ IF option_type = "call" THEN c.strike > 100
                                  ELSE c.strike < 100}
        before(c) == {d \in otm : Abs(d.strike - 100) < Abs(c.strike - 100)}
    IN {c \in otm : Cardinality({d.strike : d \in before(c)}) < max_results}

\* min(contracts, key=lambda c: abs(c.strike - target)): of the nearest
\* strikes the one that is first in the list, i.e. nearest to the spot
nearest(contracts, target) ==
    CHOOSE c \in contracts :
       \A d \in contracts :
          \/ Abs(c.strike - target) < Abs(d.strike - target)
          \/ /\ Abs(c.strike - target) = Abs(d.strike - target)
             /\ Abs(c.strike - 100) <= Abs(d.strike - 100)

\* the contracts open_strangle(underlying, dte_target, otm_pct) picks
strangle_contracts(listed_calls, listed_puts, dte_target, otm_pct) ==
    LET calls == find_otm(listed_calls, "call", dte_target - 7, dte_target + 7, 5)
        puts == find_otm(listed_puts, "put", dte_target - 7, dte_target + 7, 5)
    IN IF calls = {} \/ puts = {}
       THEN [found |-> FALSE, call |-> Listed(0, 0), put |-> Listed(0, 0)]
       ELSE [found |-> TRUE,
             call |-> nearest(calls, 100 + otm_pct),
             put |-> nearest(puts, 100 - otm_pct)]

\* the otm_pct _execute_action gives open_strangle: none, so the default
execute_otm_pct == otm_pct_default

(* Inputs *)

ListedCalls == {Listed(105, 30), Listed(110, 30), Listed(110, 45), Listed(115, 30)}
ListedPuts == {Listed(95, 30), Listed(90, 30), Listed(90, 20), Listed(85, 30)}
StrangleQuotes == {<<1000, 1000>>, <<1000, 0>>}

\* vol_mean_reversion with an IV rank above high_iv_threshold: evaluate, and
\* _execute_action on the sell_strangle it returns
SellStrangle ==
    /\ variant = "options"
    /\ trader.strategy_name = "vol_mean_reversion"
    /\ deribit.order_counter + 2 <= MaxSchedOrders
    /\ \E listed_calls \in SUBSET ListedCalls, listed_puts \in SUBSET ListedPuts,
          quotes \in StrangleQuotes :
       \E decision \in {VolMeanReversion_evaluate(deribit, rm, now, today, "BTC", 1)} :
       \E picked \in {strangle_contracts(listed_calls, listed_puts, vol_target_dte,
                                         execute_otm_pct)} :
       \E opened \in {open_strangle(deribit, "BTC", "sell", OneContract, picked.found,
                                    quotes)} :
          /\ decision.actions # NoActions
          /\ deribit' = opened.adapter
          /\ rm' = decision.rm
          /\ ret' = [op |-> "sell_strangle",
                     listed_calls |-> listed_calls, listed_puts |-> listed_puts,
                     picked |-> picked,
                     group |-> opened.group,
                     legs |-> DOMAIN opened.adapter.positions \ DOMAIN deribit.positions]
    /\ UNCHANGED <<variant, now, today, owed, loss_trip_until, limit_trip_until, paper,
                   concVars, trader, entryVars>>

-----------------------------------------------------------------------------
(* The spot strategies: each adds a signal column to a bar series.  A bar is *)
(* given by the indicator columns the rule compares: x against lo for the    *)
(* buy side and against hi for the sell side, and the two gates.             *)

\* a value pandas gives before an indicator's window is full
NaN == -100

\* comparisons of two columns at one bar: False when either value is NaN
gt(a, b) == a # NaN /\ b # NaN /\ a > b
lt(a, b) == a # NaN /\ b # NaN /\ a < b
ge(a, b) == a # NaN /\ b # NaN /\ a >= b
le(a, b) == a # NaN /\ b # NaN /\ a <= b

Bar(x, lo, hi, up, down) == [x |-> x, lo |-> lo, hi |-> hi, up |-> up, down |-> down]

\* the strategies that derive the signal from a position column
LevelStrategies == {"sma_crossover", "ema_crossover", "macd", "triple_ema"}
\* and those that test the crossing itself
CrossStrategies ==
    {"rsi", "bollinger", "mean_reversion", "momentum", "volume_weighted",
     "rsi_macd_combo", "pairs_spread"}
SpotStrategies == LevelStrategies \cup CrossStrategies

\* result["position"] = np.where(fast > slow, 1, 0); triple_ema: short > mid
\* and mid > long
position(name, bar) ==
    IF name = "triple_ema"
    THEN (IF gt(bar.x, bar.lo) /\ gt(bar.lo, bar.hi) THEN 1 ELSE 0)
    ELSE (IF gt(bar.x, bar.lo) THEN 1 ELSE 0)

\* the signal is the position: 1 on every bar the position is held
signal_at_level(name, bars, t) ==
    IF name \in LevelStrategies THEN position(name, bars[t])
    ELSE IF gt(bars[t].x, bars[t].lo) /\ bars[t].up THEN 1
    ELSE IF lt(bars[t].x, bars[t].hi) /\ bars[t].down THEN -1
    ELSE 0

\* the signal column at row t: position.diff() for the level strategies (NaN
\* on the first row); for the others 0, then 1 where the buy rule crosses,
\* then -1 where the sell rule crosses
signal_at(name, bars, t) ==
    IF name \in LevelStrategies
    THEN (IF t = 1 THEN NaN
          ELSE IF position(name, bars[t]) - position(name, bars[t - 1]) = 1 THEN 1
          ELSE IF position(name, bars[t]) - position(name, bars[t - 1]) = -1 THEN -1
          ELSE 0)
    ELSE IF /\ t > 1
            /\ lt(bars[t].x, bars[t].hi) /\ ge(bars[t - 1].x, bars[t - 1].hi)
            /\ bars[t].down
    THEN -1
    ELSE IF /\ t > 1
            /\ gt(bars[t].x, bars[t].lo) /\ le(bars[t - 1].x, bars[t - 1].lo)
            /\ bars[t].up
    THEN 1
    ELSE 0

\* apply_strategy(name, df): the signal column
apply_strategy(name, bars) == [t \in 1..Len(bars) |-> signal_at(name, bars, t)]

(* Inputs of the spot strategies *)

MaxBars == 5    \* the length of the longest bar series

\* the bars a strategy can see: fast against slow; short, mid, long; an
\* oscillator against two fixed thresholds (momentum: +threshold above
\* -threshold); the close against the bands; the close against its SMA with
\* the volume gate; the MACD line against its signal line with the RSI gates
Bars(name) ==
    CASE name \in {"sma_crossover", "ema_crossover", "macd"} ->
            {Bar(x, y, y, TRUE, TRUE) : x \in {NaN, 1, 2, 3}, y \in {NaN, 2}}
      [] name = "triple_ema" ->
            {Bar(x, 2, z, TRUE, TRUE) : x \in {1, 3}, z \in {NaN, 1, 2}}
      [] name \in {"rsi", "mean_reversion", "pairs_spread"} ->
            {Bar(x, 1, 2, TRUE, TRUE) : x \in {NaN, 0, 1, 2, 3}}
      [] name = "momentum" ->
            {Bar(x, 2, 1, TRUE, TRUE) : x \in {NaN, 0, 1, 2, 3}}
      [] name = "bollinger" ->
            {Bar(x, b[1], b[2], TRUE, TRUE) : x \in {NaN, 1, 2, 3}, b \in {<<1, 3>>, <<2, 2>>}}
      [] name = "volume_weighted" ->
            {Bar(x, 2, 2, g, g) : x \in {NaN, 1, 2, 3}, g \in BOOLEAN}
      [] name = "rsi_macd_combo" ->
            {Bar(x, 2, 2, rsi < 50, rsi > 50) : x \in {1, 2, 3}, rsi \in {40, 50, 60}}

\* the next bar has closed and the strategy is applied to the longer series
ApplyStrategy ==
    /\ \E name \in IF ret = NoCall THEN SpotStrategies ELSE {ret.name} :
       \E bars \in {IF ret = NoCall THEN <<>> ELSE ret.bars} :
          /\ Len(bars) < MaxBars
          /\ \E bar \in Bars(name) :
                ret' = [op |-> "apply_strategy", name |-> name,
                        bars |-> Append(bars, bar),
                        signal |-> apply_strategy(name, Append(bars, bar))]
    /\ UNCHANGED <<riskVars, nonRiskVars>>

-----------------------------------------------------------------------------
(* fetch_full_history (core/data_fetcher.py): the pagination loop over      *)
(* exchange.fetch_ohlcv.  Timestamps are counted in candles: the timeframe  *)
(* is one unit, since_ts is 0 and now_ts is MaxHistory.                     *)

tf_ms == 1
since_ts == 0
now_ts == MaxHistory
retry_limit == 5

\* the timestamps of a page of candles from first to last
Page(first, last) == [i \in 1..(last - first + 1) |-> first + i - 1]

\* what exchange.fetch_ohlcv can do: raise RateLimitExceeded, NetworkError or
\* another ccxt error, or return a page of at most PageLimit candles (none,
\* or candles anywhere before now, whatever `since` asked for)
VenuePages ==
    {<<>>} \cup {Page(first, last) : first \in since_ts..(now_ts - 1),
                                    last \in since_ts..(now_ts - 1)}
Fetched ==
    {[kind |-> "rate_limit", candles |-> <<>>],
     [kind |-> "network_error", candles |-> <<>>],
     [kind |-> "exchange_error", candles |-> <<>>]}
    \cup {[kind |-> "candles", candles |-> page] :
              page \in {q \in VenuePages : Len(q) <= PageLimit}}

NoFetch ==
    [at |-> "idle", current_since |-> 0, rate_limit_retries |-> 0,
     network_retries |-> 0, all_candles |-> {}, requests |-> 0,
     exhausted |-> FALSE]

\* the locals before the while loop
fetch_full_history_enter == [NoFetch EXCEPT !.at = "loop", !.current_since = since_ts]

\* one pass of the loop body when fetch_ohlcv does `answer`
loop_body(f, answer) ==
    LET candles == answer.candles
        last_ts == candles[Len(candles)]
        asked == [f EXCEPT !.requests = @ + 1]
    IN CASE answer.kind = "rate_limit" ->
              IF f.rate_limit_retries + 1 >= retry_limit
              THEN [asked EXCEPT !.rate_limit_retries = @ + 1, !.exhausted = TRUE,
                                 !.at = "returned"]
              ELSE [asked EXCEPT !.rate_limit_retries = @ + 1]
         [] answer.kind = "network_error" ->
              IF f.network_retries + 1 >= retry_limit
              THEN [asked EXCEPT !.network_retries = @ + 1, !.exhausted = TRUE,
                                 !.at = "returned"]
              ELSE [asked EXCEPT !.network_retries = @ + 1]
         [] answer.kind = "exchange_error" -> [asked EXCEPT !.at = "raised"]
         [] OTHER ->
              LET reset == [asked EXCEPT !.rate_limit_retries = 0,
                                         !.network_retries = 0]
              IN IF candles = <<>> THEN [reset EXCEPT !.at = "returned"]
                 ELSE LET extended ==
                              [reset EXCEPT !.all_candles =
                                  @ \cup {candles[i] : i \in 1..Len(candles)}]
                      IN IF last_ts = f.current_since
                         THEN [extended EXCEPT !.at = "returned"]
                         ELSE [extended EXCEPT !.current_since = last_ts + tf_ms]

\* fetch_full_history(symbol, timeframe, since) is called
FetchFullHistory ==
    /\ fetch.at = "idle"
    /\ fetch' = fetch_full_history_enter
    /\ UNCHANGED <<riskVars, ret, paper, deribit, concVars, trader, runner, launch, loop>>

\* `while current_since < now_ts:` holds and the body runs once
FetchPage ==
    /\ fetch.at = "loop"
    /\ fetch.current_since < now_ts
    /\ fetch.requests < MaxRequests
    /\ \E answer \in Fetched : fetch' = loop_body(fetch, answer)
    /\ UNCHANGED <<riskVars, ret, paper, deribit, concVars, trader, runner, launch, loop>>

\* the while test fails: the frame is built from all_candles and returned
FetchDone ==
    /\ fetch.at = "loop"
    /\ fetch.current_since >= now_ts
    /\ fetch' = [fetch EXCEPT !.at = "returned"]
    /\ UNCHANGED <<riskVars, ret, paper, deribit, concVars, trader, runner, launch, loop>>

FetchStart == fetch = NoFetch

TraderStart == trader = [strategy_name |-> "none", monthly_hedge_spend |-> 0]

RiskStart ==
    /\ variant \in {"spot", "options"}
    /\ now = 0
    /\ today = 1
    /\ rm = RiskInit
    /\ ret = NoCall
    /\ owed = FALSE
    /\ loss_trip_until = NoneTime
    /\ limit_trip_until = NoneTime

Init ==
    /\ RiskStart /\ PaperStart /\ AdapterStart /\ ConcStart /\ TraderStart /\ RunnerStart
    /\ EntryStart /\ LoopStart /\ FetchStart

\* the breaker over time: default-argument checks, the clock runs
RiskNext ==
    \/ AdvanceClock
    \/ ResetDaily
    \/ UpdatePeak
    \/ RecordTradeResult
    \/ SpotCheckCanTrade
    \/ OptionsCheckCanTrade

SpecRisk == Init /\ [][RiskNext]_vars

\* the rule order: checks with proposed trades at one instant
RulesNext ==
    \/ ResetDaily
    \/ UpdatePeak
    \/ RecordTradeResult
    \/ SpotCheckProposed
    \/ OptionsCheckProposed

SpecRules == Init /\ [][RulesNext]_vars

\* the paper adapter under any sequence of its three operations
PaperNext ==
    \/ PlaceOrder
    \/ CancelOrder
    \/ CheckPendingStops

PaperOnly == Init /\ variant = "spot"

SpecPaper == PaperOnly /\ [][PaperNext]_vars

\* the options adapter's paper book under any sequence of its operations
OptionsNext ==
    \/ BuyOption
    \/ SellOption
    \/ ClosePosition
    \/ CloseLegGroup
    \/ OpenSpread
    \/ OpenStraddle
    \/ OpenStrangle

OptionsOnly == Init /\ variant = "options"

SpecOptions == OptionsOnly /\ [][OptionsNext]_vars

\* the options adapter's paper book over its life: positions are opened,
\* marked, closed and settled at expiry
BookHasRoom == deribit.order_counter < MaxBookPositions

BookNext ==
    \/ (BookHasRoom /\ BuyOption)
    \/ (BookHasRoom /\ SellOption)
    \/ ClosePosition
    \/ HandleExpiries
    \/ UpdatePositions

SpecBook == OptionsOnly /\ [][BookNext]_vars

\* the options adapter shared by a trading thread and a reading thread
ConcNext ==
    \/ CallBuyOption
    \/ CallOpenStraddle
    \/ LegDebit
    \/ InsertPosition
    \/ AppendTrade
    \/ Observe

SpecConc == OptionsOnly /\ [][ConcNext]_vars

\* the traders' loops
SchedStart ==
    /\ \/ variant = "spot" /\ TraderStart
       \/ /\ variant = "options"
          /\ \E name \in OptionsStrategies :
                trader = [strategy_name |-> name, monthly_hedge_spend |-> 0]
    /\ now = 0
    /\ today = 1
    /\ rm = LiveTraderRisk
    /\ ret = NoCall
    /\ owed = FALSE
    /\ loss_trip_until = NoneTime
    /\ limit_trip_until = NoneTime
    /\ PaperStart /\ AdapterStart /\ ConcStart /\ RunnerStart /\ EntryStart /\ LoopStart /\ FetchStart

SchedNext ==
    \/ SpotTradingTick
    \/ OptionsTradingTick

SpecSched == SchedStart /\ [][SchedNext]_vars

\* the options loop on the venue with the wider quotes
HedgeNext == HedgeTradingTick

HedgeStart == SchedStart /\ variant = "options"

SpecHedge == HedgeStart /\ [][HedgeNext]_vars

\* the options loop, with the strategy's calls seen from outside
EvalNext ==
    \/ HedgeTradingTick
    \/ StrategyCall

EvalStart == SchedStart /\ variant = "options"

SpecEval == EvalStart /\ [][EvalNext]_vars

\* the runners as processes
ProcNext ==
    \/ InvokeCheckOptions
    \/ InvokeCheckStrategy

ProcStart == Init /\ variant = "options"

SpecProc == ProcStart /\ [][ProcNext]_vars

\* the two places an option entry comes from: a run of the stateless runner,
\* and the ticks of the options loop
GateNext ==
    \/ InvokeCheckOptions
    \/ HedgeTradingTick

GateStart == SchedStart /\ variant = "options"

SpecGate == GateStart /\ [][GateNext]_vars

\* the options loop started with --max-positions
MaxPositionsArgs == {1, opt_max_positions}

CapNext == OptionsTradingTick

CapStart ==
    /\ variant = "options"
    /\ \E name \in OptionsStrategies, n \in MaxPositionsArgs :
          trader = [strategy_name |-> name, monthly_hedge_spend |-> 0,
                    max_positions |-> n]
    /\ now = 0
    /\ today = 1
    /\ rm = OptionsTraderRisk
    /\ ret = NoCall
    /\ owed = FALSE
    /\ loss_trip_until = NoneTime
    /\ limit_trip_until = NoneTime
    /\ PaperStart /\ AdapterStart /\ ConcStart /\ RunnerStart /\ EntryStart /\ LoopStart /\ FetchStart

SpecCap == CapStart /\ [][CapNext]_vars

\* a spot strategy on a growing bar series
SignalNext == ApplyStrategy

SignalStart == Init /\ variant = "spot"

SpecSignal == SignalStart /\ [][SignalNext]_vars

\* vol_mean_reversion in a high IV rank, on every listing of the venue
StrangleNext == SellStrangle

StrangleStart == SchedStart /\ trader.strategy_name = "vol_mean_reversion"

SpecStrangle == StrangleStart /\ [][StrangleNext]_vars

\* market orders only, at the prices of the round trip
FillNext == MarketOrder

FillStart == Init /\ variant = "spot"

SpecFill == FillStart /\ [][FillNext]_vars

\* the paper adapter with market orders, stop orders and resting limit orders
StopShapes ==
    {<<"market", NoPrice, NoPrice>>,
     <<"limit", 2000, NoPrice>>,
     <<"stop_loss", NoPrice, 3000>>}

PlaceStopOrder == PlaceOrderIn(StopShapes, VenueAnswers)

StopsNext ==
    \/ PlaceStopOrder
    \/ CancelOrder
    \/ CheckPendingStops

StopsStart == Init /\ variant = "spot"

SpecStops == StopsStart /\ [][StopsNext]_vars

\* one call of fetch_full_history against any venue
HistoryNext ==
    \/ FetchFullHistory
    \/ FetchPage
    \/ FetchDone

HistoryStart == Init /\ variant = "spot"

SpecHistory == HistoryStart /\ [][HistoryNext]_vars

\* the check_options runner under a driver that opens what it is told to
CheckStart ==
    /\ RiskStart /\ PaperStart /\ AdapterStart /\ ConcStart /\ TraderStart /\ EntryStart
    /\ LoopStart /\ FetchStart
    /\ \E v \in CheckVariants, strategy_name \in RunnerStrategies :
          runner = [NoRunner EXCEPT !.variant = v, !.strategy_name = strategy_name]

CheckNext == CheckOptions

SpecCheck == CheckStart /\ [][CheckNext]_vars

\* the programs that can reach a real venue, run one after the other
LiveNext ==
    \/ RunLiveTrader
    \/ RunCheckHyperliquid

SpecLive == Init /\ [][LiveNext]_vars

\* start() of an OptionsTrader (always on the sandbox book) or of a
\* LiveTrader in paper or live mode, with max_iterations from the command line
LoopInit ==
    /\ RiskStart /\ PaperStart /\ AdapterStart /\ ConcStart /\ TraderStart /\ RunnerStart
    /\ EntryStart /\ FetchStart
    /\ \E kind \in {"options", "live"}, paper_mode \in BOOLEAN,
          max_iterations \in 0..MaxLoopIterations :
          /\ kind = "options" => paper_mode
          /\ variant = (IF kind = "options" THEN "options" ELSE "spot")
          /\ loop = Constructed(kind, paper_mode, max_iterations)

\* the steps start() takes by itself
LoopStep ==
    \/ Start
    \/ WhileTest
    \/ TickHead
    \/ ProcessSubject
    \/ TickTail
    \/ AfterTick
    \/ Wake
    \/ ExceptClause
    \/ Shutdown

LoopNext ==
    \/ LoopStep
    \/ HandleShutdown

SpecLoop == LoopInit /\ [][LoopNext]_vars

\* every call start() makes returns or raises, and the sleep ends
SpecLoopFair == SpecLoop /\ WF_vars(LoopStep)

-----------------------------------------------------------------------------
(* Claims about the risk managers *)

IsCheck == ret.op = "check_can_trade"

\* C1 as stated: from any state in which consecutive_losses >= max, every
\* later check_can_trade denies until a cooldown has elapsed, whatever
\* record_trade_result, update_peak or reset_daily calls come in between.
C1_DeniesOnceLossesReachedMax ==
    (IsCheck /\ owed) => ~ret.result.allowed

\* C1 amended: a check_can_trade that finds consecutive_losses >= max denies
\* and starts the cooldown, and every later check_can_trade denies until that
\* cooldown has elapsed, whatever calls come in between.
C1_DeniesAfterLossTrip ==
    IsCheck =>
        /\ (now < loss_trip_until) => ~ret.result.allowed
        /\ (~ret.pre.circuit_break_active
              /\ ret.pre.consecutive_losses >= MaxConsecutive)
           => /\ ret.result = Result(FALSE, "consecutive_losses")
              /\ loss_trip_until = now + Cooldown

\* a check denied inside a loss cooldown although a winning trade has reset
\* the counter since the trip
C1_Witness ==
    /\ IsCheck
    /\ now < loss_trip_until
    /\ now + Cooldown > loss_trip_until
    /\ ret.pre.consecutive_losses = 0
    /\ ~ret.result.allowed

\* C2 as stated: after a check_can_trade that denied for the daily-loss limit
\* or the drawdown kill switch, every check_can_trade denies until the
\* cooldown has elapsed, in both variants, even if the portfolio recovered.
C2_LimitDenialStartsCooldown ==
    (IsCheck /\ now < limit_trip_until) => ~ret.result.allowed

\* C3: triggering sets circuit_break_active and circuit_break_until = now +
\* cooldown; a check before `until` denies and leaves the breaker as it is;
\* the first check at or after `until` clears the flag and the loss counter
\* before the other rules are evaluated.
C3_BreakerLifecycle ==
    /\ rm.circuit_break_active => rm.circuit_break_until # NoneTime
    /\ IsCheck =>
        LET pre == ret.pre
            running == pre.circuit_break_active /\ now < pre.circuit_break_until
            expired == pre.circuit_break_active /\ now >= pre.circuit_break_until
            tripped == /\ rm.circuit_break_active
                       /\ rm.circuit_break_until = now + Cooldown
        IN
        /\ ret.result.reason = "consecutive_losses" => tripped
        /\ (rm.circuit_break_active /\ ~running) => tripped
        /\ running =>
              /\ ret.result = Result(FALSE, "breaker_active")
              /\ rm.circuit_break_active
              /\ rm.circuit_break_until = pre.circuit_break_until
              /\ rm.consecutive_losses = pre.consecutive_losses
        /\ expired =>
              /\ ret.result.reason \notin {"breaker_active", "consecutive_losses"}
              /\ rm.consecutive_losses = 0
              /\ ret.result.allowed => ~rm.circuit_break_active

\* the first check after the cooldown: allowed, flag and counter cleared
C3_Witness ==
    /\ IsCheck
    /\ ret.pre.circuit_break_active
    /\ now >= ret.pre.circuit_break_until
    /\ ret.pre.consecutive_losses > 0
    /\ ret.result.allowed
    /\ ~rm.circuit_break_active
    /\ rm.consecutive_losses = 0

-----------------------------------------------------------------------------
(* Claim C4: the trading loops under the circuit breaker *)

OpeningActions ==
    {"buy_call", "buy_put", "sell_call", "sell_put", "buy_straddle", "sell_strangle"}

\* the tick that has just ended placed a BUY order (spot) or executed an
\* opening action (options)
TickOpened ==
    \/ /\ ret.op = "trading_tick"
       /\ ret.order.id # 0
       /\ ret.order.side = "buy"
    \/ /\ ret.op = "options_tick"
       /\ \E i \in 1..Len(ret.trade_actions) : ret.trade_actions[i].type \in OpeningActions

\* C4: a tick that runs while the circuit breaker is active and the cooldown
\* has not ended opens no position: the spot loop places no BUY order and the
\* options loop executes none of the six opening actions.
C4_NoOpeningDuringCooldown ==
    (ret.op \in {"trading_tick", "options_tick"} /\ ret.breaker) => ~TickOpened

\* an options tick whose strategy wanted to open during the cooldown and was
\* refused with breaker_active
C4_Witness ==
    /\ ret.op = "options_tick"
    /\ ret.breaker
    /\ ret.risk_check.reason = "breaker_active"
    /\ ret.trade_actions = NoActions

-----------------------------------------------------------------------------
(* Claim C5: the order of the rules *)

\* the risk state the rules of the returned check saw: after reset_daily
\* and after an expired breaker was cleared
SeenByRules ==
    LET pv == IF variant = "spot" THEN ret.args.portfolio_value
              ELSE ret.args.adapter.portfolio_value
        s1 == IF variant = "spot"
              THEN RiskManager_reset_daily(ret.pre, today, pv)
              ELSE OptionsRiskManager_reset_daily(ret.pre, today, pv)
    IN IF s1.circuit_break_active /\ now >= s1.circuit_break_until
       THEN [s1 EXCEPT !.circuit_break_active = FALSE, !.consecutive_losses = 0]
       ELSE s1

\* the rules of the spot manager that fail for the returned check
SpotFailing ==
    LET s == SeenByRules
        a == ret.args
        held == {k \in DOMAIN a.current_positions : a.current_positions[k] > 0}
    IN
    {r \in {"breaker_active"} :
        ret.pre.circuit_break_active /\ now < ret.pre.circuit_break_until}
    \cup {r \in {"consecutive_losses"} :
        s.consecutive_losses >= max_consecutive_losses}
    \cup {r \in {"daily_loss"} :
        /\ s.daily_start_value > 0
        /\ s.daily_pnl * 100 <= -daily_loss_limit_pct * s.daily_start_value}
    \cup {r \in {"max_drawdown"} :
        /\ s.peak_portfolio_value > 0
        /\ (a.portfolio_value - s.peak_portfolio_value) * 100
              <= -max_drawdown_pct * s.peak_portfolio_value}
    \cup {r \in {"position_too_large"} :
        /\ a.proposed_trade_usd > 0
        /\ a.proposed_trade_usd * 100 >
              Min(a.portfolio_value * max_position_size_pct,
                  max_position_size_usd * 100)}
    \cup {r \in {"max_positions"} :
        /\ Cardinality(held) >= max_num_positions
        /\ a.symbol # ""
        /\ split_base(a.symbol) \notin held}
    \cup {r \in {"total_exposure"} :
        /\ DOMAIN a.current_positions # {}
        /\ a.portfolio_value > 0
        /\ (sum_values(a.current_positions) + a.proposed_trade_usd) * 100
              > max_total_exposure_pct * a.portfolio_value}

\* the rules of the options manager that fail for the returned check
OptionsFailing ==
    LET s == SeenByRules
        a == ret.args
        pv == a.adapter.portfolio_value
    IN
    {r \in {"breaker_active"} :
        ret.pre.circuit_break_active /\ now < ret.pre.circuit_break_until}
    \cup {r \in {"consecutive_losses"} :
        s.consecutive_losses >= opt_max_consecutive_losses}
    \cup {r \in {"daily_loss"} :
        /\ s.daily_start_value > 0
        /\ s.daily_pnl * 100 <= -opt_daily_loss_limit_pct * s.daily_start_value}
    \cup {r \in {"max_drawdown"} :
        /\ s.peak_portfolio_value > 0
        /\ (pv - s.peak_portfolio_value) * 100
              <= -opt_max_drawdown_pct * s.peak_portfolio_value}
    \cup {r \in {"position_too_large"} :
        /\ a.proposed_premium_usd > 0
        /\ pv > 0
        /\ a.proposed_premium_usd * 100 > opt_max_single_trade_premium_pct * pv}
    \cup {r \in {"max_positions"} :
        a.adapter.num_positions >= opt_max_positions}
    \cup {r \in {"max_positions_underlying"} :
        /\ a.underlying # ""
        /\ a.adapter.underlying_count >= opt_max_positions_per_underlying}
    \cup {r \in {"premium_at_risk"} :
        /\ a.proposed_side = "buy"
        /\ pv > 0
        /\ (a.adapter.premium_at_risk + a.proposed_premium_usd) * 100
              > opt_max_premium_at_risk_pct * pv}

RECURSIVE FirstIn(_, _)
FirstIn(order, failing) ==
    IF order = <<>> THEN "OK"
    ELSE IF Head(order) \in failing THEN Head(order)
    ELSE FirstIn(Tail(order), failing)

\* the rule numbers of the claim: (1) breaker, (2) consecutive losses,
\* (3) daily loss, (4) drawdown, (5) per-trade size or premium cap,
\* (6) position count, (7) total exposure or premium at risk
ClaimedRank(r) ==
    CASE r = "breaker_active" -> 1
      [] r = "consecutive_losses" -> 2
      [] r = "daily_loss" -> 3
      [] r = "max_drawdown" -> 4
      [] r = "position_too_large" -> 5
      [] r = "max_positions" -> 6
      [] r = "total_exposure" -> 7
      [] r = "premium_at_risk" -> 7

NumberedRules ==
    {"breaker_active", "consecutive_losses", "daily_loss", "max_drawdown",
     "position_too_large", "max_positions", "total_exposure", "premium_at_risk"}

\* the order the spot manager follows
SpotOrder ==
    <<"breaker_active", "consecutive_losses", "daily_loss", "max_drawdown",
      "position_too_large", "max_positions", "total_exposure">>

\* the order the options manager follows
OptionsOrder ==
    <<"breaker_active", "consecutive_losses", "daily_loss", "max_drawdown",
      "max_positions", "max_positions_underlying", "position_too_large",
      "premium_at_risk">>

ReturnsFirstOf(order, failing) ==
    /\ ret.result.reason = FirstIn(order, failing)
    /\ ret.result.allowed <=> (failing = {})

ReturnsLowestNumbered(failing) ==
    /\ ret.result.allowed <=> (failing = {})
    /\ ~ret.result.allowed => ret.result.reason \in failing
    /\ ret.result.reason \in NumberedRules =>
          \A f \in failing \cap NumberedRules :
              ClaimedRank(ret.result.reason) <= ClaimedRank(f)

\* C5 as stated: in both variants check_can_trade stops at the first failing
\* rule of the order (1)..(7): the returned reason is that of the
\* lowest-numbered failing rule.
C5_ClaimedOrderBothVariants ==
    IsCheck =>
        IF variant = "spot" THEN ReturnsLowestNumbered(SpotFailing)
        ELSE ReturnsLowestNumbered(OptionsFailing)

\* C5 amended: the spot manager follows the order (1)..(7); the options
\* manager follows (1)..(4), then position count, per-underlying count,
\* single-trade premium cap, premium at risk; each returns the reason of the
\* first failing rule of its order.
C5_FirstFailingRule ==
    IsCheck =>
        IF variant = "spot" THEN ReturnsFirstOf(SpotOrder, SpotFailing)
        ELSE ReturnsFirstOf(OptionsOrder, OptionsFailing)

\* a spot check for which the size cap, the position count and the exposure
\* limit fail together, and an options check for which the position count and
\* the premium cap fail together
C5_Witness ==
    /\ IsCheck
    /\ \/ /\ variant = "spot"
          /\ {"position_too_large", "max_positions", "total_exposure"}
                \subseteq SpotFailing
          /\ ret.result.reason = "position_too_large"
       \/ /\ variant = "options"
          /\ {"position_too_large", "max_positions"} \subseteq OptionsFailing
          /\ ret.result.reason = "max_positions"

-----------------------------------------------------------------------------
(* Claims about the paper ExchangeAdapter *)

IsPaperCall == ret.op \in {"place_order", "cancel_order", "check_pending_stops"}

OpenableTypes == {"limit", "stop_loss", "stop_limit"}

\* open is reserved for limit and stop orders that have not been executed
OnlyUntriggeredOrdersOpen ==
    /\ \A i \in 1..Len(paper.orders) :
          paper.orders[i].status = "open" =>
              paper.orders[i].order_type \in OpenableTypes
    /\ ret.op = "place_order" /\ ret.order.status = "open" =>
          ret.order.order_type \in OpenableTypes

ClaimedTransitions ==
    {<<"pending", "open">>, <<"pending", "filled">>, <<"pending", "failed">>,
     <<"open", "filled">>, <<"open", "cancelled">>}

\* C6 as stated: under any sequence of place_order, cancel_order and
\* check_pending_stops every status change of an order is one of
\* pending -> {open, filled, failed} and open -> {filled, cancelled}, and only
\* limit/stop orders whose trigger has not fired are in status open.
C6_ClaimedStateMachine ==
    /\ IsPaperCall => \A c \in ret.changes : <<c.from, c.to>> \in ClaimedTransitions
    /\ OnlyUntriggeredOrdersOpen

\* C6 amended: every status change of an order is one of
\* pending -> {open, filled, failed} and open -> {filled, cancelled, failed}
\* (a stop order that check_pending_stops triggers and that cannot be
\* executed ends failed), and only limit/stop orders whose trigger has not
\* fired are in status open.
C6_StateMachineWithFailedStops ==
    /\ IsPaperCall =>
          \A c \in ret.changes :
              <<c.from, c.to>> \in ClaimedTransitions \cup {<<"open", "failed">>}
    /\ OnlyUntriggeredOrdersOpen

\* a check_pending_stops that filled one triggered stop and failed another,
\* with a cancelled order in the list
C6_Witness ==
    /\ ret.op = "check_pending_stops"
    /\ \E c \in ret.changes : c.from = "open" /\ c.to = "failed"
    /\ \E c \in ret.changes : c.from = "open" /\ c.to = "filled"
    /\ \E i \in 1..Len(paper.orders) : paper.orders[i].status = "cancelled"

\* C7: whenever a paper order ends with status failed (venue exception while
\* fetching the price, insufficient quote funds on a buy, insufficient base
\* quantity on a sell, or a limit order without price), the paper balance,
\* the paper positions and the trade history are what they were before the
\* order was executed.
C7_FailedOrderLeavesBooks ==
    ret.op \in {"place_order", "check_pending_stops"} =>
        \A e \in ret.execs : e.status = "failed" => e.post = e.pre

\* a market buy that fails for lack of funds after an earlier fill
C7_Witness ==
    /\ ret.op = "place_order"
    /\ ret.order.status = "failed"
    /\ ret.order.order_type = "market"
    /\ ret.order.side = "buy"
    /\ ret.venue # PriceUnavailable
    /\ Len(paper.trades) > 0
    /\ paper.balance < initial_balance * PaperScale

-----------------------------------------------------------------------------
(* Claims about the DeribitOptionsAdapter paper book *)

IsBuilder == ret.op \in {"open_spread", "open_straddle", "open_strangle"}

\* C8: for open_spread, open_straddle and open_strangle, if any leg fails to
\* fill the builder returns null, no leg of the structure remains open and
\* cash equals its value before the call.
C8_FailedStructureRolledBack ==
    IsBuilder /\ ret.group = NoGroup =>
        /\ deribit.positions = ret.pre.positions
        /\ deribit.cash = ret.pre.cash

\* C10: after a successful open_straddle or open_strangle exactly two open
\* positions carry the returned leg_group tag, and after close_leg_group(tag)
\* returns no open position carries that tag, whatever the venue answers for
\* the legs' closing quotes.
C10_GroupOpensAndClosesWhole ==
    /\ ret.op \in {"open_straddle", "open_strangle"} /\ ret.group # NoGroup =>
          Cardinality(ids_in_group(deribit, ret.group)) = 2
    /\ ret.op = "close_leg_group" /\ ret.legs = 2 =>
          ids_in_group(deribit, ret.leg_group) = {}

\* C9: the mutating operations of one adapter instance are serialized, so an
\* observer calling get_positions, get_cash or get_portfolio_value never
\* sees an intermediate state: what it reads is the book as a completed
\* operation left it, never a structure with one leg open while the builder
\* runs, nor cash changed without the matching position.
C9_ObserverSeesNoIntermediateState ==
    ret.op = "observe" =>
        /\ ret.positions = ret.between.positions
        /\ ret.cash = ret.between.cash
        /\ ret.portfolio_value = ret.between.portfolio_value

-----------------------------------------------------------------------------
(* Claims about the options adapter's book over its life *)

LongIds(a) == {pid \in DOMAIN a.positions : a.positions[pid].side = "buy"}
ShortIds(a) == {pid \in DOMAIN a.positions : a.positions[pid].side = "sell"}

\* current_price * current_spot * quantity of each position in ids, summed
MarkValue(a, ids) ==
    SumOver([pid \in ids |-> a.positions[pid].current_usd * a.positions[pid].quantity
                                * (CashScale \div QtyScale)], ids)

PortfolioValueIsMarkToMarket ==
    get_portfolio_value(deribit)
        = deribit.cash + MarkValue(deribit, LongIds(deribit))
                       - MarkValue(deribit, ShortIds(deribit))

ClosedBook ==
    /\ DOMAIN deribit.positions = {}
    /\ deribit.cash = get_portfolio_value(deribit)

IsSettlement == ret.op = "handle_expiries" /\ ~ret.raised

\* I * q of an expired position, credited when long and debited when short
SignedSettlement(pos, I) ==
    (IF pos.side = "buy" THEN 1 ELSE -1) * (I * pos.quantity * (CashScale \div QtyScale))

\* the trade records a call has appended
NewTrades(before, after) == SubSeq(after, Len(before) + 1, Len(after))

-----------------------------------------------------------------------------
(* Claims about the options trading loop *)

\* C13: in every state of an options trading loop the hedge premium recorded
\* for the month is at most max_monthly_hedge_cost_pct percent of the
\* portfolio value
C13_HedgeSpendWithinBudget ==
    variant = "options"
       => trader.monthly_hedge_spend * 100 * CashScale
             <= max_monthly_hedge_cost_pct * get_portfolio_value(deribit)

-----------------------------------------------------------------------------
(* Claims about the check_options runner *)

\* C14: with every emitted action opened and fed back, a strategy never
\* holds more than 4 option positions, and an invocation given 4 or more
\* positions emits no action and a skip_reason that names the cap
C14_AtMostFourPositions ==
    /\ Len(runner.existing_positions) <= 4
    /\ (runner.runs > 0 /\ runner.given >= 4)
          => /\ runner.out.actions = <<>>
             /\ runner.out.note = "skip_reason"
             /\ runner.out.cap = MAX_POSITIONS_PER_STRATEGY(runner.variant)

-----------------------------------------------------------------------------
(* C15: no real venue order (ccxt create_order, Hyperliquid market_open) is   *)
(* sent unless an explicit live flag was given and credentials are present;  *)
(* a run without both sends nothing to the venue.                            *)
C15_NoVenueOrderWithoutFlagAndCredentials ==
    launch.sent # "none" => launch.live_flag /\ launch.credentials

-----------------------------------------------------------------------------
(* C16: in a tick of the options scheduler handle_expiries and               *)
(* update_positions complete before any strategy call, manage_positions is   *)
(* called before evaluate, and no action is executed before evaluate has     *)
(* returned, so that manage_positions and evaluate observe the same book.    *)

IsOptionsTick == ret.op = "options_tick"

\* the positions the management actions of the tick closed: the venue
\* answered their close with a price
ClosedByManagement == IF ret.answer = PriceUnavailable THEN {} ELSE ret.closing

-----------------------------------------------------------------------------
(* C17: an exception raised while one subject is processed is caught: every  *)
(* subject of the tick is still processed, and no such exception leaves the  *)
(* tick, so the loop goes on as it would have without it.                    *)
C17_SubjectBulkhead ==
    /\ loop.at = "after_tick" => loop.processed = Subjects
    /\ loop.escaped # "subject"
    /\ loop.at = "except" \/ loop.fatal => loop.escaped = "tick"

\* a second tick after a tick with a failed subject, in which the first subject
\* has raised again and the others were processed
C17_Witness ==
    /\ loop.at = "after_tick"
    /\ loop.iteration >= 2
    /\ loop.failed_ticks >= 2
    /\ 1 \in loop.failed
    /\ loop.processed = Subjects

-----------------------------------------------------------------------------
(* C18: every exit from start(), by max_iterations, by the shutdown signal   *)
(* or by an exception that leaves a tick, has run _shutdown exactly once,    *)
(* with the final report and the risk manager's status block emitted; an     *)
(* exception reaches the caller only after that report.                      *)

Exited == loop.at \in {"returned", "raised"}

C18_ShutdownOnceWithReport ==
    /\ loop.shutdowns <= 1
    /\ Exited => /\ loop.shutdowns = 1
                 /\ loop.reports = 1
                 /\ loop.status_blocks = 1

-----------------------------------------------------------------------------
(* C19: once the shutdown handler has set running to false, no tick and no   *)
(* sleep is started any more, a tick that was in its loop over the subjects  *)
(* has processed them all, and start() comes to its end.                     *)
C19_StopsAfterShutdownSignal ==
    /\ [](loop.stopped => loop.ticks_after_stop = 0 /\ loop.sleeps_after_stop = 0)
    /\ [](loop.stopped /\ loop.stopped_at = "subjects" /\ Exited
             => loop.processed = Subjects)
    /\ (loop.stopped ~> Exited)

\* a loop without max_iterations that the signal found in the middle of a
\* tick and that has returned after it
C19_Witness ==
    /\ loop.stopped
    /\ loop.stopped_at = "subjects"
    /\ loop.max_iterations = 0
    /\ loop.processed = Subjects
    /\ loop.at = "returned"
    /\ loop.shutdowns = 1

-----------------------------------------------------------------------------
(* C20: a paper limit order is filled at once when the price is favourable   *)
(* (buy limit >= last, sell limit <= last) and rests in status open when it  *)
(* is not; a resting limit order is filled by a later poll once the price    *)
(* has become favourable, so that no limit order of the polled symbol is     *)
(* still open at a favourable price when check_pending_stops returns.        *)

Favourable(order, last) ==
    \/ order.side = "buy" /\ order.price >= last
    \/ order.side = "sell" /\ order.price <= last

IsPricedLimit(order) == order.order_type = "limit" /\ order.price # NoPrice

C20_RestingLimitFilledByPoll ==
    /\ (ret.op = "place_order" /\ IsPricedLimit(ret.order) /\ ret.venue # PriceUnavailable)
          => IF Favourable(ret.order, ret.venue)
             THEN ret.order.status \in {"filled", "failed"}
             ELSE ret.order.status = "open"
    /\ ret.op = "check_pending_stops"
          => \A i \in 1..Len(paper.orders) :
                (/\ IsPricedLimit(paper.orders[i])
                 /\ paper.orders[i].symbol = ret.symbol
                 /\ Favourable(paper.orders[i], ret.current_price))
                   => paper.orders[i].status # "open"

-----------------------------------------------------------------------------
(* C21: a stop or stop-limit order rests in status open when it is placed,   *)
(* and a check_pending_stops(symbol, current_price) whose price has reached  *)
(* the stop price (sell: price <= stop, buy: price >= stop) triggers every   *)
(* open stop and stop-limit order of the symbol, so that none of them is     *)
(* still an open stop order when the call returns.                           *)

StopTypes == {"stop_loss", "stop_limit"}

TriggerReached(order, current_price) ==
    \/ order.side = "sell" /\ current_price <= order.stop_price
    \/ order.side = "buy" /\ current_price >= order.stop_price

C21_PollTriggersEveryStop ==
    /\ (ret.op = "place_order" /\ ret.order.order_type \in StopTypes
           /\ ret.venue # PriceUnavailable)
          => ret.order.status = "open"
    /\ ret.op = "check_pending_stops"
          => \A i \in 1..Len(paper.orders) :
                (/\ paper.orders[i].order_type \in StopTypes
                 /\ paper.orders[i].symbol = ret.symbol
                 /\ TriggerReached(paper.orders[i], ret.current_price))
                   => paper.orders[i].status # "open"

\* C22: the strategy evaluators never raise: whatever the venue does, failing
\* market-data calls included, evaluate and manage_positions return a list of
\* intents, each with a reason
C22_EvaluatorsNeverRaise ==
    ret.op \in {"evaluate", "manage_positions"}
        => /\ ~ret.raised
           /\ \A i \in 1..Len(ret.intents) : ret.intents[i].reason # ""

\* C22: an evaluator that returns gives a list of intents with reasons, and
\* evaluate never gives the empty list
C22_ReturnedIntentsCarryReasons ==
    (ret.op \in {"evaluate", "manage_positions"} /\ ~ret.raised)
        => /\ \A i \in 1..Len(ret.intents) : ret.intents[i].reason # ""
           /\ ret.op = "evaluate" => Len(ret.intents) >= 1

\* C23: every run of a stateless runner (check_options, check_strategy) prints
\* exactly one JSON record on stdout, exits with 1 when the record carries an
\* `error` field and with 0 otherwise
C23_OneRecordAndExitCode ==
    ret.op \in {"check_options", "check_strategy"}
        => /\ ret.ended.records = 1
           /\ ret.ended.exit = (IF ret.ended.error THEN 1 ELSE 0)

\* C24: when the positions JSON is given both on stdin and as the positional
\* argument, the options runner uses the value read from stdin
C24_StdinTakesPrecedence ==
    (/\ ret.op = "check_options"
     /\ ret.v # "check_options"
     /\ ret.argv.kind = "list"
     /\ ret.stdin.kind = "list")
        => ret.existing_positions = ret.stdin.value

\* what score_new_trade reads of a position of the scheduler's book: the
\* evaluators aim at the same strike and expiry on every call
scored_position(pos) ==
    [action |-> pos.side, option_type |-> pos.option_type, strike |-> 50000,
     expiry |-> 1,
     delta |-> (IF pos.option_type = "call" THEN 45 ELSE -40)
                  * (IF pos.side = "buy" THEN 1 ELSE -1),
     premium_usd |-> pos.entry_price_usd]

\* the positions with the given ids, in the order of the book
RECURSIVE book_seq(_, _)
book_seq(positions, ids) ==
    IF ids = {} THEN <<>>
    ELSE LET pid == CHOOSE i \in ids : \A j \in ids : i <= j
         IN <<scored_position(positions[pid])>> \o book_seq(positions, ids \ {pid})

\* the positions the options tick has opened
TickEntries == DOMAIN deribit.positions \ ret.evaluate_saw

BuyCondition(name, bar) ==
    IF name \in LevelStrategies THEN position(name, bar) = 1 ELSE gt(bar.x, bar.lo)
SellCondition(name, bar) ==
    IF name \in LevelStrategies THEN position(name, bar) = 0 ELSE lt(bar.x, bar.hi)

\* rows t1 < t2 carry the signal sig and no row between them does
ConsecutiveSignals(sig, t1, t2) ==
    /\ t1 < t2
    /\ ret.signal[t1] = sig
    /\ ret.signal[t2] = sig
    /\ \A t \in (t1 + 1)..(t2 - 1) : ret.signal[t] # sig

\* C26: the signals of every registered spot strategy are edge-triggered:
\* between two consecutive bars with signal +1 there is a bar on which the buy
\* condition is false, and between two consecutive bars with signal -1 one on
\* which the sell condition is false
C26_SignalsEdgeTriggered ==
    ret.op = "apply_strategy"
        => \A t1, t2 \in 1..Len(ret.bars) :
              /\ ConsecutiveSignals(1, t1, t2)
                    => \E t \in (t1 + 1)..(t2 - 1) : ~BuyCondition(ret.name, ret.bars[t])
              /\ ConsecutiveSignals(-1, t1, t2)
                    => \E t \in (t1 + 1)..(t2 - 1) : ~SellCondition(ret.name, ret.bars[t])

\* a series with two buy signals, and a bar after a buy signal on which the
\* buy condition still holds and no signal is given
C26_Witness ==
    /\ ret.op = "apply_strategy"
    /\ \E t1, t2 \in 1..Len(ret.bars) : ConsecutiveSignals(1, t1, t2)
    /\ \E t \in 2..Len(ret.bars) :
          /\ ret.signal[t - 1] = 1
          /\ BuyCondition(ret.name, ret.bars[t])
          /\ ret.signal[t] = 0

\* the contracts of the type inside the DTE window of the strangle
InWindow(listed) == {c \in listed : c.dte >= 23 /\ c.dte <= 37}

\* C27: with vol_mean_reversion, an IV rank above 75 and no vol position, the
\* scheduler's sell_strangle opens exactly two short legs sharing one
\* leg_group tag that starts with strangle_, the call at the listed strike
\* nearest to spot*1.10, the put at the listed strike nearest to spot*0.90,
\* both with 23 to 37 days to expiry
C27_StrangleLegs ==
    (ret.op = "sell_strangle" /\ ret.picked.found)
        => /\ Cardinality(ret.legs) = 2
           /\ \A pid \in ret.legs :
                 /\ deribit.positions[pid].side = "sell"
                 /\ deribit.positions[pid].leg_group[1] = "strangle"
           /\ \A p, q \in ret.legs :
                 deribit.positions[p].leg_group = deribit.positions[q].leg_group
           /\ ret.picked.call.strike
                 = nearest(InWindow(ret.listed_calls), 100 + otm_pct_ten).strike
           /\ ret.picked.put.strike
                 = nearest(InWindow(ret.listed_puts), 100 - otm_pct_ten).strike
           /\ ret.picked.call.dte \in 23..37
           /\ ret.picked.put.dte \in 23..37

\* C27: what holds of the scheduler's strangle: the legs that are opened are
\* short and share one strangle tag, and the contracts are those nearest to
\* 5 percent out of the money inside the DTE window
C27_StrangleAtDefaultDistance ==
    (ret.op = "sell_strangle" /\ ret.picked.found)
        => /\ Cardinality(ret.legs) <= 2
           /\ \A pid \in ret.legs :
                 /\ deribit.positions[pid].side = "sell"
                 /\ deribit.positions[pid].leg_group[1] = "strangle"
           /\ \A p, q \in ret.legs :
                 deribit.positions[p].leg_group = deribit.positions[q].leg_group
           /\ ret.picked.call.strike
                 = nearest(InWindow(ret.listed_calls), 100 + otm_pct_default).strike
           /\ ret.picked.put.strike
                 = nearest(InWindow(ret.listed_puts), 100 - otm_pct_default).strike
           /\ ret.picked.call.dte \in 23..37
           /\ ret.picked.put.dte \in 23..37

\* the market order that has just returned was filled by the rule: at
\* last * (1 + 0.0005) for a buy and last * (1 - 0.0005) for a sell, with a
\* commission of 0.1% of the filled notional
MarketFillRule ==
    (/\ ret.op = "place_order"
     /\ ret.order.order_type = "market"
     /\ ret.order.status = "filled")
        => /\ ret.order.filled_price
                 = (IF ret.order.side = "buy"
                    THEN (ret.venue * (PaperScale + SlippagePer))
                    ELSE (ret.venue * (PaperScale - SlippagePer)))
           /\ ret.order.filled_quantity = ret.order.quantity
           /\ ret.order.commission
                 = (ret.order.quantity * ret.order.filled_price) \div 1000

\* from cash 10,000 and no position: a market buy of 0.01 at last = 50,000,
\* then a market sell of 0.01 at last = 51,000, and no other fill
RoundTrip ==
    /\ Len(paper.trades) = 2
    /\ paper.trades[1].side = "buy"
    /\ paper.trades[1].filled_price = 500 * (PaperScale + SlippagePer)
    /\ paper.trades[2].side = "sell"
    /\ paper.trades[2].filled_price = 510 * (PaperScale - SlippagePer)

\* cash is x, to the rounding of one decimal
CashAbout(x_tenths) ==
    Abs(paper.balance - x_tenths * (PaperScale \div 10)) <= PaperScale \div 20

\* C28: paper market orders fill at last*(1 +- 0.0005) with a commission of
\* 0.1% of the filled notional; the buy of 0.01 at 50,000 followed by the sell
\* of 0.01 at 51,000 leaves the base position at 0 and cash at about 10,018.4
C28_RoundTripLeavesAbout10018 ==
    /\ MarketFillRule
    /\ RoundTrip => /\ get_or_zero(paper.positions, "BTC") = 0
                    /\ CashAbout(100184)

\* C28, with the result the rule gives: the round trip leaves the base
\* position at 0 and cash at about 10,008.5 (a PnL of about +8.5)
C28_RoundTripLeavesAbout10008 ==
    /\ MarketFillRule
    /\ RoundTrip => /\ get_or_zero(paper.positions, "BTC") = 0
                    /\ CashAbout(100085)

\* the sell of the round trip has just been filled
C28_Witness ==
    /\ RoundTrip
    /\ ret.op = "place_order"
    /\ ret.order.side = "sell"
    /\ ret.order.status = "filled"
    /\ ret.venue = 510

-----------------------------------------------------------------------------
\* the six fields of the risk state
RiskFields(s) ==
    <<s.peak_portfolio_value, s.daily_start_value, s.daily_pnl,
      s.consecutive_losses, s.circuit_break_active, s.circuit_break_until>>

RiskStateWritten == RiskFields(rm)' # RiskFields(rm)

\* the step is a call of record_trade_result, update_peak or reset_daily
MutatorCall == RecordTradeResult \/ UpdatePeak \/ ResetDaily

\* the step is a call of check_can_trade
CheckCall == ret'.op = "check_can_trade" /\ ret'.pre = rm /\ ret'.at = now

\* what a check_can_trade call writes: the day's fields and the peak only
\* through its reset_daily on a new day, consecutive_losses only to clear an
\* active breaker, circuit_break_until only to trip the breaker
CheckWrites ==
    /\ today = rm.day_str =>
          /\ rm'.peak_portfolio_value = rm.peak_portfolio_value
          /\ rm'.daily_start_value = rm.daily_start_value
          /\ rm'.daily_pnl = rm.daily_pnl
    /\ rm'.consecutive_losses \in {rm.consecutive_losses, 0}
    /\ rm'.consecutive_losses # rm.consecutive_losses => rm.circuit_break_active
    /\ rm'.circuit_break_until # rm.circuit_break_until =>
          /\ rm'.circuit_break_active
          /\ rm'.circuit_break_until = now + cooldown_after_circuit_break_min

\* the step is a check_can_trade call that writes nothing itself: the risk
\* state changes only through the reset_daily it makes on a new day
NestedResetDaily ==
    /\ CheckCall
    /\ today # rm.day_str
    /\ rm'.consecutive_losses = rm.consecutive_losses
    /\ rm'.circuit_break_active = rm.circuit_break_active
    /\ rm'.circuit_break_until = rm.circuit_break_until

-----------------------------------------------------------------------------
\* the tick has just sent a BUY order that check_can_trade approved
BuySent ==
    /\ ret.op = "trading_tick"
    /\ ret.buy # NoBuy
    /\ ret.risk_check.allowed

\* C30: every BUY order the spot scheduler places has a notional, quantity
\* times current price, no greater than the proposed_trade_usd that
\* check_can_trade approved in the same tick
C30_OrderWithinApproved ==
    BuySent => ret.order.quantity * ret.buy.current_price <= ret.buy.proposed_trade_usd

-----------------------------------------------------------------------------
\* the tick has just sold, filled, the position an earlier tick bought
SellFilled ==
    /\ ret.op = "trading_tick"
    /\ ret.order.status = "filled"
    /\ ret.order.side = "sell"
    /\ Len(paper.trades) >= 2
    /\ paper.trades[Len(paper.trades)].id = ret.order.id
    /\ paper.trades[Len(paper.trades) - 1].side = "buy"

\* the entry fill and the exit fill of the round trip
EntryFill == paper.trades[Len(paper.trades) - 1]
ExitFill == paper.trades[Len(paper.trades)]

\* the exit fill price is above the entry cost per unit, commission included
SoldAboveEntryCost ==
    ExitFill.quantity * ExitFill.filled_price
        > EntryFill.quantity * EntryFill.filled_price + EntryFill.commission

\* C31: a position sold at a fill price above its entry cost is recorded as
\* a non-negative trade: the SELL resets consecutive_losses to 0
C31_ProfitableSellResetsLosses ==
    (SellFilled /\ SoldAboveEntryCost) => rm.consecutive_losses = 0

-----------------------------------------------------------------------------
\* the step is an options tick whose close, close_group or roll actions
\* closed nothing: every position they name is still open
ClosedNothing ==
    /\ ret'.op = "options_tick"
    /\ ret'.closing # {}
    /\ ret'.closing \subseteq DOMAIN deribit'.positions

\* C32: record_trade_result is not called when a close, close_group or roll
\* action closed nothing: a close that fails never changes consecutive_losses
\* (the breaker is not active, so check_can_trade does not clear the count)
C32_FailedCloseRecordsNothing ==
    [][(ClosedNothing /\ ~rm.circuit_break_active)
          => rm'.consecutive_losses = rm.consecutive_losses]_vars

-----------------------------------------------------------------------------
\* the open positions on one underlying
on_underlying(underlying) ==
    {pid \in DOMAIN deribit.positions : deribit.positions[pid].underlying = underlying}

\* C33: across any run of the options scheduler the number of open option
\* positions never exceeds max_positions, and the number of open positions on
\* one underlying never exceeds max_positions_per_underlying, including after
\* multi-leg entries
C33_PositionLimitsHold ==
    /\ Cardinality(DOMAIN deribit.positions) <= config_max_positions
    /\ \A u \in Underlyings :
          Cardinality(on_underlying(u)) <= opt_max_positions_per_underlying

-----------------------------------------------------------------------------
\* C34: the options runner emits a multi-leg proposal all-or-nothing: when
\* the evaluation proposed several legs, the actions of the output are every
\* proposed leg or none of them, never a strict subset
C34_LegsAllOrNothing ==
    (/\ ret.op = "check_options"
     /\ ret.ended = Ended(1, FALSE, 0)
     /\ Len(ret.proposed) >= 2)
        => ret.out.actions \in {<<>>, ret.proposed}

-----------------------------------------------------------------------------
\* the options tick has executed a roll that closed its position:
\* protective_puts and covered_calls manage their positions by roll only
RollClosed ==
    /\ ret.op = "options_tick"
    /\ trader.strategy_name \in {"protective_puts", "covered_calls"}
    /\ ret.closing # {}
    /\ ret.closing \cap ret.evaluate_saw = {}

\* C35: executing a roll only closes the old position; the replacement leg
\* is not opened in the same tick
C35_RollOpensNothingInItsTick == RollClosed => TickEntries = {}

-----------------------------------------------------------------------------
\* C36: once the retries of a page request are exhausted, fetch_full_history
\* surfaces the failure to the caller instead of returning as if the history
\* had been fetched
C36_ExhaustedRetriesSurface == fetch.exhausted => fetch.at # "returned"

\* C37: each iteration of the pagination loop strictly advances
\* current_since, uses up one of the consecutive retries, or leaves the loop
C37_EveryIterationProgresses ==
    [][FetchPage =>
          \/ fetch'.current_since > fetch.current_since
          \/ fetch'.rate_limit_retries > fetch.rate_limit_retries
          \/ fetch'.network_retries > fetch.network_retries
          \/ fetch'.at # "loop"]_vars

-----------------------------------------------------------------------------
TerminalStatuses == {"filled", "cancelled", "failed"}

\* the trades recorded for the order with the given id
trades_of(id) == {i \in 1..Len(paper.trades) : paper.trades[i].id = id}

\* no status change of the last call started from a terminal status
TerminalOrdersStay ==
    IsPaperCall => \A c \in ret.changes : c.from \notin TerminalStatuses

\* the effect of a fill is applied at most once per order: one trade at most
\* for an id, none for a cancelled order, and one execution at most for an
\* order in one poll
FilledAtMostOnce ==
    /\ \A i \in 1..Len(paper.trades) : Cardinality(trades_of(paper.trades[i].id)) = 1
    /\ \A i \in 1..Len(paper.orders) :
          paper.orders[i].status \in {"cancelled", "failed", "open"}
              => trades_of(paper.orders[i].id) = {}
    /\ ret.op = "check_pending_stops"
          => \A e1, e2 \in ret.execs : e1.id = e2.id => e1 = e2

\* C38: a paper order that has reached filled, cancelled or failed never
\* changes status again, and the effect of a fill is applied at most once per
\* order: a cancelled order is never filled later, and a triggered stop is
\* executed once even when check_pending_stops is polled repeatedly
C38_TerminalStatusesFinal == TerminalOrdersStay /\ FilledAtMostOnce

\* check_pending_stops has been polled again at a price that had triggered a
\* stop an earlier poll filled, with a cancelled order in the list: nothing
\* is executed
C38_Witness ==
    /\ ret.op = "check_pending_stops"
    /\ ret.execs = {}
    /\ \E i \in 1..Len(paper.orders) :
          /\ paper.orders[i].status = "filled"
          /\ stop_triggered([paper.orders[i] EXCEPT !.status = "open",
                                                    !.order_type = "stop_loss"],
                            ret.symbol, ret.current_price)
    /\ \E j \in 1..Len(paper.orders) : paper.orders[j].status = "cancelled"

-----------------------------------------------------------------------------
Opened == DOMAIN deribit'.positions \ DOMAIN deribit.positions

\* the tags carried by the open positions of adapter a
tags_of(a) ==
    {a.positions[pid].leg_group : pid \in DOMAIN a.positions} \ {NoGroup}

BuilderCalls == {"open_spread", "open_straddle", "open_strangle"}

\* a call hands out ids above every id handed out before it
FreshIds ==
    /\ deribit'.order_counter >= deribit.order_counter
    /\ \A pid \in Opened :
          /\ pid > deribit.order_counter
          /\ deribit'.positions[pid].id = pid

\* a tag comes from a builder call, and is carried by no position that was
\* open before the call; a position keeps its tag
FreshTags ==
    /\ \A pid \in Opened :
          deribit'.positions[pid].leg_group # NoGroup =>
             /\ ret'.op \in BuilderCalls
             /\ deribit'.positions[pid].leg_group \notin tags_of(deribit)
    /\ \A pid \in DOMAIN deribit.positions \cap DOMAIN deribit'.positions :
          deribit'.positions[pid].leg_group = deribit.positions[pid].leg_group

\* close_leg_group(tag) closes legs that carry the tag and no other position
ClosesOwnLegs ==
    ret'.op = "close_leg_group" =>
       \A pid \in DOMAIN deribit.positions \ DOMAIN deribit'.positions :
          deribit.positions[pid].leg_group = ret'.leg_group

\* C40: position ids are unique and never reused, two open positions carry
\* the same leg_group tag only if one builder call opened both, and
\* close_leg_group(tag) closes no leg of another structure, also after
\* builder calls in which legs failed
C40_TagsNameOneStructure == [][FreshIds /\ FreshTags /\ ClosesOwnLegs]_vars

\* both legs of a structure were closed by their tag while the one leg of
\* an earlier builder call, whose other leg failed, stays open
C40_Witness ==
    /\ ret.op = "close_leg_group"
    /\ ret.legs = 2
    /\ ret.results = 2
    /\ \E pid \in DOMAIN deribit.positions :
          /\ deribit.positions[pid].leg_group \notin {NoGroup, ret.leg_group}
          /\ pid < ret.leg_group[2]

====
